---- MODULE Spec2Model ----
(***************************************************************************)
(* A model of the file printer of src/compiler/printer.ts: the per-run     *)
(* printFiles closure, the per-file pass doPrint, the generated-name       *)
(* resolver, the emit-helper injection and the node dispatcher.            *)
(*                                                                         *)
(* Text is modelled as a sequence of one-character strings, so that        *)
(* "_" + 1 built by makeUniqueName and "_" + (count - 26) built by         *)
(* makeTempVariableName are the same value exactly when they are the same  *)
(* JavaScript string.                                                      *)
(***************************************************************************)
EXTENDS Integers, Sequences, FiniteSets, TLC

VARIABLES
    pc,                     \* position of the printer: "idle", "start", "transform", "pass", "body", "hang"
    opts,                   \* compilerOptions and resolver of the printFiles call
    files,                  \* sourceFiles of the current doPrint call: each file's node.flags
    bundled,                \* isBundledEmit argument of the current doPrint call
    fileIdx,                \* index in files of currentSourceFile (0: undefined)
    currentFileIdentifiers, \* closure variable, line 161
    nodeToGeneratedName,    \* closure variable, line 156: node id -> text
    generatedNameSet,       \* closure variable, line 157
    tempFlags,              \* closure variable, line 158
    extendsEmitted,         \* closure variables, lines 162-165
    decorateEmitted,
    paramEmitted,
    awaiterEmitted,
    stack,                  \* activations of emitters that saved tempFlags
    out,                    \* what the pass wrote to the writer (helper texts, statements)
    last,                   \* history: the most recent getGeneratedIdentifier call
    firstText,              \* history: node -> text of its first resolution in this pass
    context,                \* the transform context given to initializePrinter (lines 228-240)
    noSubstitution,         \* nodes whose emit flags hold NoSubstitution
    dispatched,             \* history: the node and entry point of the latest dispatch
    events,                 \* history: the calls the latest dispatch made, in order
    tree,                   \* the part of the printed tree that the emitter observed is given
    run                     \* the printFiles call around the passes (lines 86-116), or NoRun

vars == <<pc, opts, files, bundled, fileIdx, currentFileIdentifiers,
          nodeToGeneratedName, generatedNameSet, tempFlags, extendsEmitted,
          decorateEmitted, paramEmitted, awaiterEmitted, stack, out, last,
          firstText, context, noSubstitution, dispatched, events, tree, run>>

dispatchVars == <<context, noSubstitution, dispatched, events>>

-----------------------------------------------------------------------------
(* Bounds of the model.                                                    *)

MaxFiles == 2       \* source files of one bundle
MaxDepth == 1       \* nesting of function/class/enum/module bodies in a file
MaxRequests == 2    \* names generated in one pass
MaxOut == 4         \* statement starts written in one pass

-----------------------------------------------------------------------------
(* Text.                                                                   *)

Alphabet == <<"a", "b", "c", "d", "e", "f", "g", "h", "i", "j", "k", "l", "m",
              "n", "o", "p", "q", "r", "s", "t", "u", "v", "w", "x", "y", "z">>

Digits == <<"0", "1", "2", "3", "4", "5", "6", "7", "8", "9">>

\* String(n) for an integer n >= 0, as "_" + (count - 26) and baseName + i build it.
RECURSIVE NumberToString(_)
NumberToString(n) ==
    IF n < 10 THEN <<Digits[n + 1]>>
    ELSE NumberToString(n \div 10) \o <<Digits[(n % 10) + 1]>>

\* "_" + String.fromCharCode(CharacterCodes.a + count)
UnderscoreLetter(count) == <<"_", Alphabet[count + 1]>>

Str_i == <<"_", "i">>
Str_n == <<"_", "n">>
Str_default == <<"d", "e", "f", "a", "u", "l", "t">>
Str_class == <<"c", "l", "a", "s", "s">>
Str_module == <<"m", "o", "d", "u", "l", "e">>

-----------------------------------------------------------------------------
(* TempFlags (lines 10-14) and JavaScript's number conversions on it.      *)
(* tempFlags is declared without an initializer (line 158): its value is   *)
(* undefined until the first assignment, and undefined++ leaves NaN.       *)

TempFlags_Auto == 0
TempFlags_CountMask == 268435455
TempFlags_i == 268435456

Undefined == -1
NaN == -2

\* ToInt32 of a tempFlags value, as the operands of & and | are converted.
ToInt32(tf) == IF tf \in {Undefined, NaN} THEN 0 ELSE tf

\* tempFlags & flags, for flags one of TempFlags.Auto, TempFlags._i
BitAnd(tf, flags) ==
    IF flags = TempFlags_i
    THEN (IF (ToInt32(tf) \div TempFlags_i) % 2 = 1 THEN TempFlags_i ELSE 0)
    ELSE IF flags = TempFlags_CountMask THEN ToInt32(tf) % TempFlags_i
    ELSE 0

\* tempFlags | flags, for flags = TempFlags._i
BitOr(tf, flags) ==
    IF BitAnd(tf, flags) = flags THEN ToInt32(tf) ELSE ToInt32(tf) + flags

\* tempFlags++ : ToNumber(undefined) is NaN, and NaN + 1 is NaN
Increment(tf) == IF tf \in {Undefined, NaN} THEN NaN ELSE tf + 1

-----------------------------------------------------------------------------
(* The nodes of the input tree that the name resolver reads.  A node is    *)
(* named by its node id (getNodeId).  Nodes 1..6, 8, 9, 11, 13, 15, 17,    *)
(* 19, 20, 21 are generated identifiers; 7, 10, 12, 14, 16, 18, 22 are     *)
(* declarations, which Node-strategy identifiers point to through          *)
(* `original`; 18 is an updated copy of 10.                                *)

Str_underscore == <<"_">>
Str_x == <<"x">>
Str_M == <<"M">>

Identifier(agk, text, original) ==
    [kind |-> "Identifier", autoGenerateKind |-> agk, text |-> text,
     original |-> original, uniqueLocal |-> FALSE]

Declaration(kind, name, uniqueLocal) ==
    [kind |-> kind, autoGenerateKind |-> "None", text |-> name,
     original |-> 0, uniqueLocal |-> uniqueLocal]

\* Nodes is the list below.  The node that a transformer made by updating
\* declaration `original`: the same kind and name, and node.original set.
UpdatedDeclaration(original) ==
    [kind |-> "ModuleDeclaration", autoGenerateKind |-> "None", text |-> Str_M,
     original |-> original, uniqueLocal |-> TRUE]

Nodes ==
    <<Identifier("Auto", <<>>, 0),                      \* 1
      Identifier("Auto", <<>>, 0),                      \* 2
      Identifier("Loop", <<>>, 0),                      \* 3
      Identifier("Loop", <<>>, 0),                      \* 4
      Identifier("Unique", Str_underscore, 0),          \* 5
      Identifier("Unique", Str_x, 0),                   \* 6
      Declaration("ExportAssignment", <<>>, FALSE),     \* 7
      Identifier("Node", <<>>, 10),                     \* 8
      Identifier("Node", <<>>, 10),                     \* 9
      Declaration("ModuleDeclaration", Str_M, TRUE),    \* 10
      Identifier("Node", <<>>, 12),                     \* 11
      Declaration("FunctionDeclaration", <<>>, FALSE),  \* 12
      Identifier("Node", <<>>, 14),                     \* 13
      Declaration("EnumDeclaration", Str_x, FALSE),     \* 14
      Identifier("Node", <<>>, 16),                     \* 15
      Declaration("VariableDeclaration", <<>>, FALSE),  \* 16
      Identifier("Node", <<>>, 18),                     \* 17
      UpdatedDeclaration(10),                           \* 18
      Identifier("Unique", <<>>, 0),                    \* 19
      Identifier("Unique", Str_x, 0),                   \* 20
      Identifier("Node", <<>>, 22),                     \* 21
      Declaration("ClassDeclaration", <<"C">>, TRUE)>>  \* 22

NodeIds == 1..Len(Nodes)

\* isGeneratedIdentifier(node)
GeneratedIdentifiers ==
    {n \in NodeIds : Nodes[n].kind = "Identifier" /\ Nodes[n].autoGenerateKind # "None"}

-----------------------------------------------------------------------------
(* The generated-name resolver, lines 2486-2634.  The operators take the   *)
(* closure variables they write (tempFlags, generatedNameSet) as           *)
(* arguments and return their new values with the name.                    *)

\* resolver.hasGlobalName(name)
HasGlobalName(name) == name \in opts.globalNames

\* IsUniqueName changed so that the file's identifiers are not looked at.
IsUniqueNameNoFile(name, gns) ==
    /\ ~HasGlobalName(name)
    /\ name \notin gns

IsUniqueName(name, gns) ==
    /\ ~HasGlobalName(name)
    /\ name \notin currentFileIdentifiers
    /\ name \notin gns

\* isUniqueLocalName(name, container): decided by the binder's locals tables
IsUniqueLocalName(node) == Nodes[node].uniqueLocal

\* The text of the temp name for one value of the counter (lines 2522-2524).
TempNameOfCount(count) ==
    IF count < 26 THEN UnderscoreLetter(count)
    ELSE Str_underscore \o NumberToString(count - 26)

RECURSIVE TempVariableLoopNoSkip(_, _)
\* TempVariableLoop changed so that the counts 8 and 13 are not skipped.
TempVariableLoopNoSkip(tf, gns) ==
    LET count == BitAnd(tf, TempFlags_CountMask)
        next == Increment(tf)
    IN  IF IsUniqueName(TempNameOfCount(count), gns)
        THEN [name |-> TempNameOfCount(count), tempFlags |-> next, hang |-> FALSE]
        ELSE IF next = NaN
             THEN [name |-> <<>>, tempFlags |-> NaN, hang |-> TRUE]
             ELSE TempVariableLoopNoSkip(next, gns)

\* The while (true) loop of makeTempVariableName.  With tempFlags undefined
\* or NaN the counter read is always 0 and tempFlags++ leaves NaN, so the
\* loop never ends when "_a" is not unique: hang reports that.
RECURSIVE TempVariableLoop(_, _)
TempVariableLoop(tf, gns) ==
    LET count == BitAnd(tf, TempFlags_CountMask)
        next == Increment(tf)
    IN  IF count # 8 /\ count # 13 /\ IsUniqueName(TempNameOfCount(count), gns)
        THEN [name |-> TempNameOfCount(count), tempFlags |-> next, hang |-> FALSE]
        ELSE IF next = NaN
             THEN [name |-> <<>>, tempFlags |-> NaN, hang |-> TRUE]
             ELSE TempVariableLoop(next, gns)

\* MakeTempVariableName changed so that the preference flag in tempFlags
\* is not tested.
MakeTempVariableNameNoFlagTest(flags, tf, gns) ==
    LET name == IF flags = TempFlags_i THEN Str_i ELSE Str_n
    IN  IF flags # 0 /\ IsUniqueName(name, gns)
        THEN [name |-> name, tempFlags |-> BitOr(tf, flags), hang |-> FALSE]
        ELSE TempVariableLoop(tf, gns)

\* makeTempVariableName, lines 2509-2530
MakeTempVariableName(flags, tf, gns) ==
    LET name == IF flags = TempFlags_i THEN Str_i ELSE Str_n
    IN  IF flags # 0 /\ BitAnd(tf, flags) = 0 /\ IsUniqueName(name, gns)
        THEN [name |-> name, tempFlags |-> BitOr(tf, flags), hang |-> FALSE]
        ELSE TempVariableLoop(tf, gns)

\* The while (true) loop of makeUniqueName.
RECURSIVE UniqueNameLoop(_, _, _)
UniqueNameLoop(baseName, i, gns) ==
    IF IsUniqueName(baseName \o NumberToString(i), gns)
    THEN baseName \o NumberToString(i)
    ELSE UniqueNameLoop(baseName, i + 1, gns)

\* baseName.charCodeAt(baseName.length - 1) !== CharacterCodes._
WithUnderscore(baseName) ==
    IF Len(baseName) = 0 \/ baseName[Len(baseName)] # "_"
    THEN baseName \o Str_underscore
    ELSE baseName

\* MakeUniqueName changed so that the name is not put in generatedNameSet.
MakeUniqueNameNotRecorded(baseName, gns) ==
    LET name == UniqueNameLoop(WithUnderscore(baseName), 1, gns)
    IN  [name |-> name, generatedNameSet |-> gns]

\* makeUniqueName returns generatedNameSet[generatedName] = generatedName
MakeUniqueName(baseName, gns) ==
    LET name == UniqueNameLoop(WithUnderscore(baseName), 1, gns)
    IN  [name |-> name, generatedNameSet |-> gns \cup {name}]

RECURSIVE GetSourceNodeForGeneratedName(_)
GetSourceNodeForGeneratedName(node) ==
    LET original == Nodes[node].original
    IN  IF original = 0 THEN node
        ELSE IF /\ Nodes[original].kind = "Identifier"
                /\ Nodes[original].autoGenerateKind = "Node"
                /\ original # node
             THEN original
             ELSE GetSourceNodeForGeneratedName(original)

GetNodeIdForGeneratedIdentifier(node) ==
    IF Nodes[node].autoGenerateKind = "Node"
    THEN GetSourceNodeForGeneratedName(node)
    ELSE node

\* A generation result: the name, the strategy that made it ("temp": 
\* makeTempVariableName, "unique": makeUniqueName, "own": the declaration's
\* own name) and the closure variables after it.
Generated(name, by, tf, gns, hang) ==
    [name |-> name, by |-> by, tempFlags |-> tf, generatedNameSet |-> gns,
     hang |-> hang]

FromTemp(flags, tf, gns) ==
    LET r == MakeTempVariableName(flags, tf, gns)
    IN  Generated(r.name, "temp", r.tempFlags, gns, r.hang)

FromUnique(baseName, tf, gns) ==
    LET r == MakeUniqueName(baseName, gns)
    IN  Generated(r.name, "unique", tf, r.generatedNameSet, FALSE)

\* GenerateNameForModuleOrEnum changed so that the name is always varied.
GenerateNameForModuleOrEnumVaried(node, tf, gns) ==
    FromUnique(Nodes[node].text, tf, gns)

\* generateNameForModuleOrEnum, lines 2551-2555
GenerateNameForModuleOrEnum(node, tf, gns) ==
    IF IsUniqueLocalName(node)
    THEN Generated(Nodes[node].text, "own", tf, gns, FALSE)
    ELSE FromUnique(Nodes[node].text, tf, gns)

GenerateNameForNode(node, tf, gns) ==
    LET kind == Nodes[node].kind
    IN  CASE kind = "Identifier" -> FromUnique(Nodes[node].text, tf, gns)
          [] kind \in {"ModuleDeclaration", "EnumDeclaration"} ->
                GenerateNameForModuleOrEnum(node, tf, gns)
          [] kind \in {"ImportDeclaration", "ExportDeclaration"} ->
                FromUnique(Str_module, tf, gns)
          [] kind \in {"FunctionDeclaration", "ClassDeclaration", "ExportAssignment"} ->
                FromUnique(Str_default, tf, gns)
          [] kind = "ClassExpression" -> FromUnique(Str_class, tf, gns)
          [] OTHER -> FromTemp(TempFlags_Auto, tf, gns)

GenerateIdentifier(node, tf, gns) ==
    LET agk == Nodes[node].autoGenerateKind
    IN  CASE agk = "Auto" -> FromTemp(TempFlags_Auto, tf, gns)
          [] agk = "Loop" -> FromTemp(TempFlags_i, tf, gns)
          [] agk = "Unique" -> FromUnique(Nodes[node].text, tf, gns)
          [] agk = "Node" ->
                GenerateNameForNode(GetSourceNodeForGeneratedName(node), tf, gns)

\* unescapeIdentifier: a name that starts with three underscores loses one
UnescapeIdentifier(name) ==
    IF Len(name) > 2 /\ name[1] = "_" /\ name[2] = "_" /\ name[3] = "_"
    THEN Tail(name)
    ELSE name

\* MemoLookup changed so that no entry is ever found.
MemoLookupNever(memo, id) == <<>>

\* nodeToGeneratedName[id] || (nodeToGeneratedName[id] = ...): the empty
\* sequence stands for an absent (undefined) entry
MemoLookup(memo, id) == memo[id]

-----------------------------------------------------------------------------
(* Emit helpers, lines 1958-2037.  The writer's text is kept as the        *)
(* sequence of the helper texts, prologue directives and statement starts  *)
(* written, in order; h is the record of the variables the helper          *)
(* emitters write.                                                         *)

\* !flag for a helper flag: undefined (never assigned) and false are falsy
Falsy(flag) == flag # "true"

BelowES6 == opts.languageVersion \in {"ES3", "ES5"}

HelperState(o, ext, dec, par, aw, emitted) ==
    [out |-> o, extendsEmitted |-> ext, decorateEmitted |-> dec,
     paramEmitted |-> par, awaiterEmitted |-> aw, helpersEmitted |-> emitted]

\* The extends helper written without regard to extendsEmitted.
EmitExtendsHelperUnguarded(file, h) ==
    IF BelowES6 /\ "HasClassExtends" \in file
    THEN [h EXCEPT !.out = Append(@, "extendsHelper"), !.extendsEmitted = "true",
                   !.helpersEmitted = TRUE]
    ELSE h

\* if (languageVersion < ES6 && (!extendsEmitted && node.flags & HasClassExtends))
EmitExtendsHelper(file, h) ==
    IF BelowES6 /\ Falsy(h.extendsEmitted) /\ "HasClassExtends" \in file
    THEN [h EXCEPT !.out = Append(@, "extendsHelper"), !.extendsEmitted = "true",
                   !.helpersEmitted = TRUE]
    ELSE h

\* The metadata helper written after the decorate branch instead of in it.
EmitDecorateHelperMetadataOutside(file, h) ==
    LET d == IF Falsy(h.decorateEmitted) /\ "HasDecorators" \in file
             THEN [h EXCEPT !.out = Append(@, "decorateHelper"),
                            !.decorateEmitted = "true", !.helpersEmitted = TRUE]
             ELSE h
    IN  IF opts.emitDecoratorMetadata /\ "HasDecorators" \in file
        THEN [d EXCEPT !.out = Append(@, "metadataHelper")]
        ELSE d

\* if (!decorateEmitted && node.flags & HasDecorators)
EmitDecorateHelper(file, h) ==
    IF Falsy(h.decorateEmitted) /\ "HasDecorators" \in file
    THEN [h EXCEPT !.out = IF opts.emitDecoratorMetadata
                            THEN @ \o <<"decorateHelper", "metadataHelper">>
                            ELSE Append(@, "decorateHelper"),
                   !.decorateEmitted = "true", !.helpersEmitted = TRUE]
    ELSE h

\* if (!paramEmitted && node.flags & HasParamDecorators)
EmitParamHelper(file, h) ==
    IF Falsy(h.paramEmitted) /\ "HasParamDecorators" \in file
    THEN [h EXCEPT !.out = Append(@, "paramHelper"), !.paramEmitted = "true",
                   !.helpersEmitted = TRUE]
    ELSE h

\* if (!awaiterEmitted && node.flags & HasAsyncFunctions)
EmitAwaiterHelper(file, h) ==
    IF Falsy(h.awaiterEmitted) /\ "HasAsyncFunctions" \in file
    THEN [h EXCEPT !.out = Append(@, "awaiterHelper"), !.awaiterEmitted = "true",
                   !.helpersEmitted = TRUE]
    ELSE h

\* emitEmitHelpers(node): helpersEmitted starts false in every call
EmitEmitHelpers(file, h) ==
    IF opts.noEmitHelpers THEN [h EXCEPT !.helpersEmitted = FALSE]
    ELSE EmitAwaiterHelper(file,
           EmitParamHelper(file,
             EmitDecorateHelper(file,
               EmitExtendsHelper(file, [h EXCEPT !.helpersEmitted = FALSE]))))

\* A helper of emitHelpers written only if the text does not hold it yet.
WriteHelperOnce(emitFlags, flag, text, h) ==
    IF flag \in emitFlags /\ \A i \in 1..Len(h.out) : h.out[i] # text
    THEN [h EXCEPT !.out = Append(@, text), !.helpersEmitted = TRUE]
    ELSE h

\* One of the unconditional helpers of emitHelpers (lines 1965-1978).
WriteHelperIf(emitFlags, flag, text, h) ==
    IF flag \in emitFlags
    THEN [h EXCEPT !.out = Append(@, text), !.helpersEmitted = TRUE]
    ELSE h

\* emitHelpers(node), node carrying emitFlags; file is currentSourceFile
EmitHelpers(emitFlags, file, h) ==
    LET h0 == [h EXCEPT !.helpersEmitted = FALSE]
        h1 == IF "EmitEmitHelpers" \in emitFlags THEN EmitEmitHelpers(file, h0) ELSE h0
        h2 == WriteHelperIf(emitFlags, "EmitExportStar", "exportStarHelper", h1)
        h3 == WriteHelperIf(emitFlags, "EmitSuperHelper", "superHelper", h2)
    IN  WriteHelperIf(emitFlags, "EmitAdvancedSuperHelper", "advancedSuperHelper", h3)

\* forEach(sourceFiles, emitEmitHelpers): forEach stops at the first call
\* that returns a truthy value
RECURSIVE ForEachEmitEmitHelpers(_, _, _)
ForEachEmitEmitHelpers(fs, i, h) ==
    IF i > Len(fs) THEN h
    ELSE LET r == EmitEmitHelpers(fs[i], h)
         IN  IF r.helpersEmitted THEN r ELSE ForEachEmitEmitHelpers(fs, i + 1, r)

\* emitPrologueDirectives: one mark for each leading prologue directive
RECURSIVE EmitPrologueDirectives(_, _)
EmitPrologueDirectives(n, o) ==
    IF n = 0 THEN o ELSE EmitPrologueDirectives(n - 1, Append(o, "prologue"))

CurrentHelperState ==
    HelperState(out, extendsEmitted, decorateEmitted, paramEmitted, awaiterEmitted, FALSE)

SetHelperState(h) ==
    /\ out' = h.out
    /\ extendsEmitted' = h.extendsEmitted
    /\ decorateEmitted' = h.decorateEmitted
    /\ paramEmitted' = h.paramEmitted
    /\ awaiterEmitted' = h.awaiterEmitted

-----------------------------------------------------------------------------
(* The dispatch of a node: emit, emitExpression and what they call.  The   *)
(* operators take the record t of the calls made so far and of the nodes   *)
(* that carry NoSubstitution, and return it extended.                      *)

\* The nodes of the trees that are dispatched.  y is the node the
\* substitution hooks return; elided is of a kind neither switch names.
\* A numeric literal is named by its text, whose characters are in text.
\* fn is a function declaration with the block body block, overload one
\* with no body, arrow an arrow function whose body is the expression x,
\* module a module block; the statements of block, of module and of the
\* file are in tree.  first, second and the hoisted declarations are
\* statements with no child, debugger statements.  useStrict and useAsm
\* are expression statements of a string literal: prologue directives.
Tree ==
    [root   |-> [kind |-> "SourceFile", isExpression |-> FALSE, expression |-> ""],
     stmt   |-> [kind |-> "ExpressionStatement", isExpression |-> FALSE, expression |-> "x"],
     x      |-> [kind |-> "Identifier", isExpression |-> TRUE, expression |-> ""],
     y      |-> [kind |-> "Identifier", isExpression |-> TRUE, expression |-> ""],
     a      |-> [kind |-> "Identifier", isExpression |-> TRUE, expression |-> ""],
     b      |-> [kind |-> "Identifier", isExpression |-> TRUE, expression |-> ""],
     c      |-> [kind |-> "Identifier", isExpression |-> TRUE, expression |-> ""],
     one    |-> [kind |-> "NumericLiteral", isExpression |-> TRUE, expression |-> ""],
     export |-> [kind |-> "ExportKeyword", isExpression |-> FALSE, expression |-> ""],
     elided |-> [kind |-> "NotEmittedStatement", isExpression |-> FALSE, expression |-> ""],
     E          |-> [kind |-> "Identifier", isExpression |-> TRUE, expression |-> ""],
     Name       |-> [kind |-> "Identifier", isExpression |-> TRUE, expression |-> ""],
     toString   |-> [kind |-> "Identifier", isExpression |-> TRUE, expression |-> ""],
     toFixed    |-> [kind |-> "Identifier", isExpression |-> TRUE, expression |-> ""],
     member     |-> [kind |-> "PropertyAccessExpression", isExpression |-> TRUE,
                     expression |-> "E", name |-> "Name"],
     element    |-> [kind |-> "ElementAccessExpression", isExpression |-> TRUE,
                     expression |-> "E", argumentExpression |-> "Name"],
     ofMember   |-> [kind |-> "PropertyAccessExpression", isExpression |-> TRUE,
                     expression |-> "member", name |-> "toString"],
     ofElement  |-> [kind |-> "PropertyAccessExpression", isExpression |-> TRUE,
                     expression |-> "element", name |-> "toString"],
     ofName     |-> [kind |-> "PropertyAccessExpression", isExpression |-> TRUE,
                     expression |-> "x", name |-> "toString"],
     ofInteger  |-> [kind |-> "PropertyAccessExpression", isExpression |-> TRUE,
                     expression |-> "1", name |-> "toString"],
     ofFraction |-> [kind |-> "PropertyAccessExpression", isExpression |-> TRUE,
                     expression |-> "1.5", name |-> "toFixed"],
     first      |-> [kind |-> "DebuggerStatement", isExpression |-> FALSE, expression |-> ""],
     second     |-> [kind |-> "DebuggerStatement", isExpression |-> FALSE, expression |-> ""],
     hoisted1   |-> [kind |-> "DebuggerStatement", isExpression |-> FALSE, expression |-> ""],
     hoisted2   |-> [kind |-> "DebuggerStatement", isExpression |-> FALSE, expression |-> ""],
     block      |-> [kind |-> "Block", isExpression |-> FALSE, expression |-> ""],
     fn         |-> [kind |-> "FunctionDeclaration", isExpression |-> FALSE, expression |-> "",
                     name |-> "Name", body |-> "block"],
     overload   |-> [kind |-> "FunctionDeclaration", isExpression |-> FALSE, expression |-> "",
                     name |-> "Name", body |-> "undefined"],
     arrow      |-> [kind |-> "ArrowFunction", isExpression |-> TRUE, expression |-> "",
                     body |-> "x"],
     lambda     |-> [kind |-> "ExpressionStatement", isExpression |-> FALSE,
                     expression |-> "arrow"],
     module     |-> [kind |-> "ModuleBlock", isExpression |-> FALSE, expression |-> ""],
     useStrict  |-> [kind |-> "ExpressionStatement", isExpression |-> FALSE,
                     expression |-> "strict"],
     strict     |-> [kind |-> "StringLiteral", isExpression |-> TRUE, expression |-> ""],
     useAsm     |-> [kind |-> "ExpressionStatement", isExpression |-> FALSE,
                     expression |-> "asm"],
     asm        |-> [kind |-> "StringLiteral", isExpression |-> TRUE, expression |-> ""]]
    @@ ("1" :> [kind |-> "NumericLiteral", isExpression |-> TRUE, expression |-> "",
                text |-> <<"1">>])
    @@ ("1.5" :> [kind |-> "NumericLiteral", isExpression |-> TRUE, expression |-> "",
                  text |-> <<"1", ".", "5">>])

TreeIds == DOMAIN Tree

\* A transform context: the nodes isEmitNotificationEnabled and
\* isExpressionSubstitutionEnabled accept, whether onEmitNode calls the
\* callback it is given, and the two hooks: "undefined" (not supplied),
\* "identity" (returns its argument) or "substitute" (returns y).
Context(notify, callsBack, substitutionEnabled, identifierSubstitution, expressionSubstitution) ==
    [notify |-> notify, callsBack |-> callsBack,
     substitutionEnabled |-> substitutionEnabled,
     identifierSubstitution |-> identifierSubstitution,
     expressionSubstitution |-> expressionSubstitution]

\* the closure variables of lines 149-155 before initializePrinter, and
\* after the reset of lines 209-217
NoContext == Context({}, FALSE, {}, "undefined", "undefined")

NoDispatch == [node |-> "", entry |-> ""]

\* The record an emitter works on: the calls made so far, the nodes that
\* carry NoSubstitution, what tryEmitSubstitute returned, and tempFlags.
Trace(evs, flagged) ==
    [events |-> evs, noSubstitution |-> flagged, returned |-> FALSE,
     tempFlags |-> tempFlags]

Log(t, call, node) == [t EXCEPT !.events = Append(@, <<call, node>>)]

\* a call that a condition guards
LogWhen(cond, t, call, node) == IF cond THEN Log(t, call, node) ELSE t

\* The last of the records ts.  TLC computes the elements of a tuple in
\* order: an emitter that lists its stages has each of them computed
\* before the next, which keeps the evaluation shallow.
InOrder(ts) == ts[Len(ts)]

\* substitution(node) for a hook of the context
Substitute(hook, node) == IF hook = "identity" THEN node ELSE "y"

RECURSIVE EmitNodeWithNotificationOption(_, _, _, _)
RECURSIVE EmitNodeWithWorker(_, _, _, _)
RECURSIVE EmitWorker(_, _, _)
RECURSIVE EmitExpressionWorker(_, _, _)
RECURSIVE TryEmitSubstitute(_, _, _, _)
RECURSIVE Call(_, _, _, _)
RECURSIVE OnEmitNode(_, _, _, _)
RECURSIVE EmitPropertyAccessExpression(_, _, _)
RECURSIVE EmitElementAccessExpression(_, _, _)
RECURSIVE EmitFunctionDeclarationOrExpression(_, _, _)
RECURSIVE EmitArrowFunction(_, _, _)
RECURSIVE EmitModuleBlock(_, _, _)
RECURSIVE EmitNodeList(_, _, _, _, _, _, _, _)
RECURSIVE EmitSignatureAndBody(_, _, _, _)
RECURSIVE EmitBlockFunctionBody(_, _, _, _)
RECURSIVE EmitSourceFile(_, _, _)

\* emit, lines 255-257
Emit(node, ctx, t) ==
    EmitNodeWithNotificationOption(node, "emitWithoutNotificationOption", ctx, t)

\* emitExpression, lines 269-271
EmitExpression(node, ctx, t) ==
    EmitNodeWithNotificationOption(node, "emitExpressionWithoutNotificationOption", ctx, t)

\* A call of the function fn, made when the calls before it have returned
\* (t); a function of several parameters takes them in a record.
Call(fn, node, ctx, t) ==
    InOrder(<<t,
      CASE fn = "emitNodeList" ->
               EmitNodeList(node.emit, node.parentNode, node.children, node.format,
                            node.start, node.count, ctx, t)
        [] fn = "emitSignatureAndBody" ->
               EmitSignatureAndBody(node.node, node.emitSignatureHead, ctx, t)
        [] fn = "emitBlockFunctionBody" ->
               EmitBlockFunctionBody(node.parentNode, node.body, ctx, t)
        [] fn = "emitSourceFile" -> EmitSourceFile(node, ctx, t)
        [] fn = "emit" -> Emit(node, ctx, t)
        [] fn = "emitExpression" -> EmitExpression(node, ctx, t)
        [] fn = "emitWithoutNotificationOption" ->
               EmitNodeWithWorker(node, "emitWorker", ctx, t)
        [] fn = "emitExpressionWithoutNotificationOption" ->
               EmitNodeWithWorker(node, "emitExpressionWorker", ctx, t)
        [] fn = "emitWorker" -> EmitWorker(node, ctx, t)
        [] fn = "emitExpressionWorker" -> EmitExpressionWorker(node, ctx, t)>>)

\* onEmitNode(node, emit) of the transform context: the interceptor calls
\* the callback it is given once, or not at all.
OnEmitNode(node, emit, ctx, t) ==
    LET t1 == Log(t, "onEmitNode", node)
    IN  IF ctx.callsBack THEN Call(emit, node, ctx, t1) ELSE t1

\* emitNodeWithNotificationOption, lines 283-294
EmitNodeWithNotificationOption(node, emit, ctx, t) ==
    LET t1 == Log(t, "isEmitNotificationEnabled", node)
    IN  IF node \in ctx.notify
        THEN OnEmitNode(node, emit, ctx, t1)
        ELSE Call(emit, node, ctx, t1)

\* emitNodeWithWorker with emitStart called before the leading comments.
EmitNodeWithWorkerStartFirst(node, emitWorker, ctx, t) ==
    LET t1 == Log(Log(t, "emitStart", node), "emitLeadingComments", node)
        t2 == Call(emitWorker, node, ctx, t1)
    IN  InOrder(<<t, t1, t2, Log(Log(t2, "emitEnd", node), "emitTrailingComments", node)>>)

\* emitNodeWithWorker, lines 296-306
EmitNodeWithWorker(node, emitWorker, ctx, t) ==
    LET t1 == Log(Log(t, "emitLeadingComments", node), "emitStart", node)
        t2 == Call(emitWorker, node, ctx, t1)
    IN  InOrder(<<t, t1, t2, Log(Log(t2, "emitEnd", node), "emitTrailingComments", node)>>)

\* emitIdentifier, lines 697-704
EmitIdentifier(node, t) == Log(Log(t, "emitIdentifier", node), "write", node)

\* emitLiteral, lines 682-691
EmitLiteral(node, t) == Log(Log(t, "emitLiteral", node), "write", node)

\* writeTokenNode without its emitEnd call.
WriteTokenNodeNoEnd(node, t) ==
    Log(Log(Log(t, "writeTokenNode", node), "emitStart", node), "write", node)

\* writeTokenNode, lines 2300-2306
WriteTokenNode(node, t) ==
    Log(Log(Log(Log(t, "writeTokenNode", node), "emitStart", node), "write", node),
        "emitEnd", node)

\* emitExpressionStatement, lines 1237-1240
EmitExpressionStatement(node, ctx, t) ==
    Log(EmitExpression(Tree[node].expression, ctx, Log(t, "emitExpressionStatement", node)),
        "write", node)

\* tryEmitSubstitute that does not tag the substitute.
TryEmitSubstituteUntagged(node, substitution, ctx, t) ==
    IF ctx[substitution] # "undefined" /\ node \notin t.noSubstitution
    THEN LET substitute == Substitute(ctx[substitution], node)
             t1 == Log(t, substitution, node)
         IN  IF substitute # node
             THEN [Call("emitWorker", substitute, ctx, t1) EXCEPT !.returned = TRUE]
             ELSE [t1 EXCEPT !.returned = FALSE]
    ELSE [t EXCEPT !.returned = FALSE]

\* tryEmitSubstitute, lines 2080-2091; substitution names the hook
TryEmitSubstitute(node, substitution, ctx, t) ==
    IF ctx[substitution] # "undefined" /\ node \notin t.noSubstitution
    THEN LET substitute == Substitute(ctx[substitution], node)
             t1 == Log(t, substitution, node)
         IN  IF substitute # node
             THEN [Call("emitWorker", substitute, ctx,
                        [t1 EXCEPT !.noSubstitution = @ \cup {substitute}])
                      EXCEPT !.returned = TRUE]
             ELSE [t1 EXCEPT !.returned = FALSE]
    ELSE [t EXCEPT !.returned = FALSE]

\* emitWorker whose switch writes the token of a kind it has no case for.
EmitWorkerDefaultToken(node, ctx, t) ==
    LET t0 == Log(t, "emitWorker", node)
        kind == Tree[node].kind
    IN  CASE kind = "Identifier" ->
                 LET r == TryEmitSubstitute(node, "identifierSubstitution", ctx, t0)
                 IN  IF r.returned THEN r ELSE EmitIdentifier(node, r)
          [] kind = "ExpressionStatement" -> EmitExpressionStatement(node, ctx, t0)
          [] kind = "DebuggerStatement" -> Log(t0, "write", "debugger;")
          [] kind = "FunctionDeclaration" ->
                 EmitFunctionDeclarationOrExpression(node, ctx, t0)
          [] kind = "ModuleBlock" -> EmitModuleBlock(node, ctx, t0)
          [] kind = "SourceFile" -> Log(t0, "emitSourceFile", node)
          [] OTHER -> IF Tree[node].isExpression
                      THEN EmitExpressionWorker(node, ctx, t0)
                      ELSE WriteTokenNode(node, t0)

\* emitWorker, lines 322-579; emitSourceFile goes on in the actions that
\* follow PrintSourceFile
EmitWorker(node, ctx, t) ==
    LET t0 == Log(t, "emitWorker", node)
        kind == Tree[node].kind
    IN  CASE kind = "Identifier" ->
                 LET r == TryEmitSubstitute(node, "identifierSubstitution", ctx, t0)
                 IN  IF r.returned THEN r ELSE EmitIdentifier(node, r)
          [] kind = "ExportKeyword" -> WriteTokenNode(node, t0)
          [] kind = "ExpressionStatement" -> EmitExpressionStatement(node, ctx, t0)
          [] kind = "DebuggerStatement" -> Log(t0, "write", "debugger;")
          [] kind = "FunctionDeclaration" ->
                 EmitFunctionDeclarationOrExpression(node, ctx, t0)
          [] kind = "ModuleBlock" -> EmitModuleBlock(node, ctx, t0)
          [] kind = "SourceFile" -> Log(t0, "emitSourceFile", node)
          [] OTHER -> IF Tree[node].isExpression
                      THEN EmitExpressionWorker(node, ctx, t0)
                      ELSE t0

\* emitExpressionWorker, lines 581-669
EmitExpressionWorker(node, ctx, t) ==
    LET t0 == Log(t, "emitExpressionWorker", node)
        kind == Tree[node].kind
        r == IF node \in ctx.substitutionEnabled
             THEN TryEmitSubstitute(node, "expressionSubstitution", ctx, t0)
             ELSE [t0 EXCEPT !.returned = FALSE]
    IN  IF r.returned THEN r
        ELSE CASE kind \in {"NumericLiteral", "StringLiteral"} -> EmitLiteral(node, r)
               [] kind = "Identifier" -> EmitIdentifier(node, r)
               [] kind = "PropertyAccessExpression" -> EmitPropertyAccessExpression(node, ctx, r)
               [] kind = "ElementAccessExpression" -> EmitElementAccessExpression(node, ctx, r)
               [] kind = "ArrowFunction" -> EmitArrowFunction(node, ctx, r)
               [] OTHER -> r

-----------------------------------------------------------------------------
(* The output sink and the list emitter, lines 2155-2272 and 2331-2413.    *)
(* A call of the sink is logged in the trace like every other call:        *)
(* <<"write", text>>, <<"writeLine", "">>, <<"increaseIndent", "">>,       *)
(* <<"decreaseIndent", "">>.  The text of the identifier named n is n.     *)
(* A ListFormat is the set of the names of its bits.                       *)

Write(t, text) == Log(t, "write", text)

WriteLine(t) == Log(t, "writeLine", "")

IncreaseIndent(t) == Log(t, "increaseIndent", "")

DecreaseIndent(t) == Log(t, "decreaseIndent", "")

\* a call of the sink that a condition guards: if (cond) write(text), ...
WriteWhen(cond, t, text) == IF cond THEN Write(t, text) ELSE t

WriteLineWhen(cond, t) == IF cond THEN WriteLine(t) ELSE t

IncreaseIndentWhen(cond, t) == IF cond THEN IncreaseIndent(t) ELSE t

DecreaseIndentWhen(cond, t) == IF cond THEN DecreaseIndent(t) ELSE t

LinesMask == {"MultiLine", "PreserveLines"}

DelimitersMask == {"BarDelimited", "AmpersandDelimited", "CommaDelimited"}

BracketsMask == {"Braces", "Parenthesis", "AngleBrackets", "SquareBrackets"}

\* getDelimiter whose comma delimiter carries the space.
GetDelimiterWithSpace(format) ==
    CASE format \cap DelimitersMask = {} -> ""
      [] format \cap DelimitersMask = {"CommaDelimited"} -> ", "
      [] format \cap DelimitersMask = {"BarDelimited"} -> " |"
      [] format \cap DelimitersMask = {"AmpersandDelimited"} -> " &"

\* createDelimiterMap and getDelimiter, lines 2637-2648
GetDelimiter(format) ==
    CASE format \cap DelimitersMask = {} -> ""
      [] format \cap DelimitersMask = {"CommaDelimited"} -> ","
      [] format \cap DelimitersMask = {"BarDelimited"} -> " |"
      [] format \cap DelimitersMask = {"AmpersandDelimited"} -> " &"

\* createBracketsMap, lines 2650-2657
Brackets(format) ==
    CASE format \cap BracketsMask = {"Braces"} -> <<"{", "}">>
      [] format \cap BracketsMask = {"Parenthesis"} -> <<"(", ")">>
      [] format \cap BracketsMask = {"AngleBrackets"} -> <<"<", ">">>
      [] format \cap BracketsMask = {"SquareBrackets"} -> <<"[", "]">>

\* getOpeningBracket, lines 2659-2661
GetOpeningBracket(format) == Brackets(format)[1]

\* getClosingBracket, lines 2663-2665
GetClosingBracket(format) == Brackets(format)[2]

\* A node as the list emitter reads it: its id in Tree, whether its
\* positions are synthesized, its startsOnNewLine property ("undefined",
\* "true" or "false") and the source lines of its start (trivia skipped)
\* and of its end.
ListNode(node, synthesized, startsOnNewLine, startLine, endLine) ==
    [node |-> node, synthesized |-> synthesized, startsOnNewLine |-> startsOnNewLine,
     startLine |-> startLine, endLine |-> endLine]

\* the value undefined where a node is expected
NoListNode == ListNode("undefined", FALSE, "undefined", 0, 0)

\* A NodeArray: its elements and its hasTrailingComma property; defined
\* is FALSE for the value undefined.
NodeArray(elements, hasTrailingComma) ==
    [defined |-> TRUE, elements |-> elements, hasTrailingComma |-> hasTrailingComma]

UndefinedArray == [defined |-> FALSE, elements |-> <<>>, hasTrailingComma |-> FALSE]

NodeIsSynthesized(node) == node.synthesized

\* positionIsSynthesized(parentNode.pos)
PositionIsSynthesized(node) == node.synthesized

RangeIsOnSingleLine(range) == range.startLine = range.endLine

RangeStartPositionsAreOnSameLine(range1, range2) == range1.startLine = range2.startLine

RangeEndPositionsAreOnSameLine(range1, range2) == range1.endLine = range2.endLine

RangeEndIsOnSameLineAsRangeStart(range1, range2) == range1.endLine = range2.startLine

\* synthesizedNodeStartsOnNewLine, lines 2402-2413
SynthesizedNodeStartsOnNewLine(node, format) ==
    IF NodeIsSynthesized(node)
    THEN IF node.startsOnNewLine = "undefined"
         THEN "PreferNewLine" \in format
         ELSE node.startsOnNewLine = "true"
    ELSE "PreferNewLine" \in format

\* shouldWriteLeadingLineTerminator without the early return of lines
\* 2337-2339.
ShouldWriteLeadingLineTerminatorNoPrefer(parentNode, children, format) ==
    IF "MultiLine" \in format THEN TRUE
    ELSE IF "PreserveLines" \in format
    THEN IF Len(children) = 0
         THEN ~RangeIsOnSingleLine(parentNode)
         ELSE IF PositionIsSynthesized(parentNode) \/ NodeIsSynthesized(children[1])
              THEN SynthesizedNodeStartsOnNewLine(children[1], format)
              ELSE ~RangeStartPositionsAreOnSameLine(parentNode, children[1])
    ELSE FALSE

\* shouldWriteLeadingLineTerminator, lines 2331-2355; children[0] is the
\* first element of the array, whatever start is
ShouldWriteLeadingLineTerminator(parentNode, children, format) ==
    IF "MultiLine" \in format THEN TRUE
    ELSE IF "PreserveLines" \in format
    THEN IF "PreferNewLine" \in format THEN TRUE
         ELSE IF Len(children) = 0
         THEN ~RangeIsOnSingleLine(parentNode)
         ELSE IF PositionIsSynthesized(parentNode) \/ NodeIsSynthesized(children[1])
              THEN SynthesizedNodeStartsOnNewLine(children[1], format)
              ELSE ~RangeStartPositionsAreOnSameLine(parentNode, children[1])
    ELSE FALSE

\* shouldWriteSeparatingLineTerminator that breaks before every sibling of
\* a single-line list.
ShouldWriteSeparatingLineTerminatorAlways(previousNode, nextNode, format) ==
    IF "MultiLine" \in format THEN TRUE
    ELSE IF "PreserveLines" \in format
    THEN IF previousNode = NoListNode \/ nextNode = NoListNode THEN FALSE
         ELSE IF NodeIsSynthesized(previousNode) \/ NodeIsSynthesized(nextNode)
         THEN \/ SynthesizedNodeStartsOnNewLine(previousNode, format)
              \/ SynthesizedNodeStartsOnNewLine(nextNode, format)
         ELSE ~RangeEndIsOnSameLineAsRangeStart(previousNode, nextNode)
    ELSE TRUE

\* shouldWriteSeparatingLineTerminator, lines 2357-2375
ShouldWriteSeparatingLineTerminator(previousNode, nextNode, format) ==
    IF "MultiLine" \in format THEN TRUE
    ELSE IF "PreserveLines" \in format
    THEN IF previousNode = NoListNode \/ nextNode = NoListNode THEN FALSE
         ELSE IF NodeIsSynthesized(previousNode) \/ NodeIsSynthesized(nextNode)
         THEN \/ SynthesizedNodeStartsOnNewLine(previousNode, format)
              \/ SynthesizedNodeStartsOnNewLine(nextNode, format)
         ELSE ~RangeEndIsOnSameLineAsRangeStart(previousNode, nextNode)
    ELSE nextNode.startsOnNewLine = "true"

\* shouldWriteClosingLineTerminator that ignores NoTrailingNewLine.
ShouldWriteClosingLineTerminatorTrailing(parentNode, children, format) ==
    IF "MultiLine" \in format THEN TRUE
    ELSE IF "PreserveLines" \in format
    THEN IF "PreferNewLine" \in format THEN TRUE
         ELSE IF Len(children) = 0
         THEN ~RangeIsOnSingleLine(parentNode)
         ELSE IF PositionIsSynthesized(parentNode) \/ NodeIsSynthesized(children[Len(children)])
              THEN SynthesizedNodeStartsOnNewLine(children[Len(children)], format)
              ELSE ~RangeEndPositionsAreOnSameLine(parentNode, children[Len(children)])
    ELSE FALSE

\* shouldWriteClosingLineTerminator, lines 2377-2400; lastOrUndefined is
\* the last element of the array, whatever start and count are
ShouldWriteClosingLineTerminator(parentNode, children, format) ==
    IF "MultiLine" \in format THEN "NoTrailingNewLine" \notin format
    ELSE IF "PreserveLines" \in format
    THEN IF "PreferNewLine" \in format THEN TRUE
         ELSE IF Len(children) = 0
         THEN ~RangeIsOnSingleLine(parentNode)
         ELSE IF PositionIsSynthesized(parentNode) \/ NodeIsSynthesized(children[Len(children)])
              THEN SynthesizedNodeStartsOnNewLine(children[Len(children)], format)
              ELSE ~RangeEndPositionsAreOnSameLine(parentNode, children[Len(children)])
    ELSE FALSE

\* emit(child) for the emit parameter of emitNodeList: emit (emitList,
\* line 2156) or emitExpression (emitExpressionList, line 2160)
EmitChild(emit, child, ctx, t) ==
    IF emit = "emit" THEN Emit(child.node, ctx, t) ELSE EmitExpression(child.node, ctx, t)

RECURSIVE EmitChildrenFlagNotReset(_, _, _, _, _, _, _, _, _)
\* EmitChildren changed so that shouldEmitInterveningComments, once false,
\* is not set back to true.
EmitChildrenFlagNotReset(emit, children, format, start, count, i, comments, ctx, t) ==
    IF i >= count THEN t
    ELSE LET child == children[start + i + 1]
             previousSibling == IF i > 0 THEN children[start + i] ELSE NoListNode
             separate == /\ i > 0
                         /\ ShouldWriteSeparatingLineTerminator(previousSibling, child, format)
             indent == separate /\ format \cap (LinesMask \cup {"Indented"}) = {}
             t3 == WriteLineWhen(separate,
                       WriteWhen(~separate /\ i > 0 /\ "SpaceBetweenSiblings" \in format,
                               IncreaseIndentWhen(indent,
                                   WriteWhen(i > 0, t, GetDelimiter(format))), " "))
             t5 == EmitChild(emit, child, ctx,
                       LogWhen(comments /\ ~separate, t3,
                               "getTrailingCommentsOfPosition", child.node))
         IN  InOrder(<<t, t5, EmitChildrenFlagNotReset(emit, children, format, start,
                           count, i + 1, comments /\ ~separate, ctx,
                           DecreaseIndentWhen(indent, t5))>>)

\* The loop of emitNodeList, lines 2207-2247, from its iteration i on;
\* comments tells shouldEmitInterveningComments.  previousSibling is
\* children[start + i - 1] for i > 0 and undefined for i = 0.
RECURSIVE EmitChildren(_, _, _, _, _, _, _, _, _)
EmitChildren(emit, children, format, start, count, i, comments, ctx, t) ==
    IF i >= count THEN t
    ELSE LET child == children[start + i + 1]
             previousSibling == IF i > 0 THEN children[start + i] ELSE NoListNode
             separate == /\ i > 0
                         /\ ShouldWriteSeparatingLineTerminator(previousSibling, child, format)
             indent == separate /\ format \cap (LinesMask \cup {"Indented"}) = {}
             t1 == WriteWhen(i > 0, t, GetDelimiter(format))
             t2 == IncreaseIndentWhen(indent, t1)
             t3 == WriteLineWhen(separate,
                       WriteWhen(~separate /\ i > 0 /\ "SpaceBetweenSiblings" \in format,
                               t2, " "))
             t4 == LogWhen(comments /\ ~separate, t3,
                         "getTrailingCommentsOfPosition", child.node)
             t5 == EmitChild(emit, child, ctx, t4)
             t6 == DecreaseIndentWhen(indent, t5)
         IN  InOrder(<<t, t4, t5, EmitChildren(emit, children, format, start, count,
                                              i + 1, TRUE, ctx, t6)>>)

\* emitNodeList that writes the brackets before it looks at the optional
\* bits.
EmitNodeListBracketsFirst(emit, parentNode, children, format, start, count, ctx, t) ==
    LET isUndefined == ~children.defined
        array == children.elements
        begin == IF start = Undefined THEN 0 ELSE start
        n == IF count # Undefined THEN count
             ELSE IF isUndefined THEN 0 ELSE Len(array) - begin
        isEmpty == isUndefined \/ Len(array) = 0 \/ begin >= Len(array) \/ n = 0
        t1 == IF format \cap BracketsMask # {} THEN Write(t, GetOpeningBracket(format)) ELSE t
    IN  IF isUndefined /\ "OptionalIfUndefined" \in format THEN t1
        ELSE IF isEmpty /\ "OptionalIfEmpty" \in format THEN t1
        ELSE IF format \cap BracketsMask # {} THEN Write(t1, GetClosingBracket(format)) ELSE t1

\* emitNodeList, lines 2163-2272; start and count are Undefined when the
\* caller leaves them out
EmitNodeList(emit, parentNode, children, format, start, count, ctx, t) ==
    LET isUndefined == ~children.defined
        array == children.elements
        begin == IF start = Undefined THEN 0 ELSE start
        n == IF count # Undefined THEN count
             ELSE IF isUndefined THEN 0 ELSE Len(array) - begin
        isEmpty == isUndefined \/ Len(array) = 0 \/ begin >= Len(array) \/ n = 0
        t1 == WriteWhen(format \cap BracketsMask # {}, t, GetOpeningBracket(format))
        leading == ShouldWriteLeadingLineTerminator(parentNode, array, format)
        closing == ShouldWriteClosingLineTerminator(parentNode, array, format)
        t2 == IF isEmpty
              THEN WriteLineWhen("MultiLine" \in format,
                       WriteWhen("MultiLine" \notin format /\ "SpaceBetweenBraces" \in format,
                               t1, " "))
              ELSE LET a1 == WriteLineWhen(leading,
                                 WriteWhen(~leading /\ "SpaceBetweenBraces" \in format,
                                         t1, " "))
                       a2 == IncreaseIndentWhen("Indented" \in format, a1)
                       a3 == EmitChildren(emit, array, format, begin, n, 0, ~leading, ctx, a2)
                       a4 == WriteWhen(/\ "AllowTrailingComma" \in format
                                     /\ children.hasTrailingComma
                                     /\ "CommaDelimited" \in format,
                                     a3, ",")
                       a5 == DecreaseIndentWhen("Indented" \in format, a4)
                   IN  WriteLineWhen(closing,
                           WriteWhen(~closing /\ "SpaceBetweenBraces" \in format, a5, " "))
    IN  IF isUndefined /\ "OptionalIfUndefined" \in format THEN t
        ELSE IF isEmpty /\ "OptionalIfEmpty" \in format THEN t
        ELSE InOrder(<<t, t1, t2,
                       WriteWhen(format \cap BracketsMask # {}, t2,
                               GetClosingBracket(format))>>)

\* emitList, lines 2155-2157
EmitList(parentNode, children, format, start, count, ctx, t) ==
    Call("emitNodeList",
         [emit |-> "emit", parentNode |-> parentNode, children |-> children,
          format |-> format, start |-> start, count |-> count], ctx, t)

\* emitExpressionList, lines 2159-2161
EmitExpressionList(parentNode, children, format, start, count, ctx, t) ==
    Call("emitNodeList",
         [emit |-> "emitExpression", parentNode |-> parentNode, children |-> children,
          format |-> format, start |-> start, count |-> count], ctx, t)

-----------------------------------------------------------------------------
(* Property and element access, lines 982-1024, 2093-2108, 2415-2429 and   *)
(* 2470-2478.  A number is held in tenths, so that 3 and 1.5 are both      *)
(* numbers of the model; opts.constantValues is resolver.getConstantValue. *)

Number(tenths) == [type |-> "number", tenths |-> tenths]

Infinity == [type |-> "infinity", tenths |-> 0]

\* the value undefined where a number is expected
NoValue == [type |-> "undefined", tenths |-> 0]

\* isFinite(value)
IsFinite(value) == value.type = "number"

\* Math.floor(value) for a finite value
Floor(value) == Number(value.tenths - (value.tenths % 10))

\* String(value)
String(value) ==
    CASE value.type = "infinity" -> "Infinity"
      [] value.type = "undefined" -> "undefined"
      [] value.tenths % 10 = 0 -> ToString(value.tenths \div 10)
      [] OTHER -> ToString(value.tenths \div 10) \o "." \o ToString(value.tenths % 10)

\* tryGetConstEnumValue that asks the resolver under isolatedModules too.
TryGetConstEnumValueAlways(node, t) ==
    IF Tree[node].kind \in {"PropertyAccessExpression", "ElementAccessExpression"}
    THEN [value |-> opts.constantValues[node], t |-> Log(t, "getConstantValue", node)]
    ELSE [value |-> NoValue, t |-> t]

\* tryGetConstEnumValue, lines 2470-2478: the value and the trace
TryGetConstEnumValue(node, t) ==
    IF opts.isolatedModules THEN [value |-> NoValue, t |-> t]
    ELSE IF Tree[node].kind \in {"PropertyAccessExpression", "ElementAccessExpression"}
    THEN [value |-> opts.constantValues[node], t |-> Log(t, "getConstantValue", node)]
    ELSE [value |-> NoValue, t |-> t]

\* tryEmitConstantValue, lines 2093-2108; declarationNameToString and
\* getTextOfNode give the text of the member name and of the index
TryEmitConstantValue(node, t) ==
    LET r == TryGetConstEnumValue(node, t)
        t1 == Write(r.t, String(r.value))
        propertyName == IF Tree[node].kind = "PropertyAccessExpression"
                        THEN Tree[node].name
                        ELSE Tree[node].argumentExpression
    IN  IF r.value # NoValue
        THEN [(IF ~opts.removeComments
               THEN Write(t1, " /* " \o propertyName \o " */")
               ELSE t1) EXCEPT !.returned = TRUE]
        ELSE [r.t EXCEPT !.returned = FALSE]

\* needsIndentation, lines 2415-2429, for the parts of an access whose
\* positions tree holds; the tree has no synthesized parentheses to skip
NeedsIndentation(parent, node1, node2) ==
    IF node2.startsOnNewLine = "true" THEN TRUE
    ELSE /\ ~NodeIsSynthesized(parent)
         /\ ~NodeIsSynthesized(node1)
         /\ ~NodeIsSynthesized(node2)
         /\ ~RangeEndIsOnSameLineAsRangeStart(node1, node2)

\* needsDotDotForPropertyAccess that asks for two periods after every
\* numeric literal.
NeedsDotDotForEveryLiteral(expression, t) ==
    IF Tree[expression].kind = "NumericLiteral"
    THEN [value |-> TRUE, t |-> t]
    ELSE LET r == TryGetConstEnumValue(expression, t)
         IN  [value |-> IsFinite(r.value) /\ Floor(r.value) = r.value, t |-> r.t]

\* needsDotDotForPropertyAccess, lines 1001-1013: the answer and the trace
NeedsDotDotForPropertyAccess(expression, t) ==
    IF Tree[expression].kind = "NumericLiteral"
    THEN [value |-> \A k \in DOMAIN Tree[expression].text : Tree[expression].text[k] # ".",
          t |-> t]
    ELSE LET r == TryGetConstEnumValue(expression, t)
         IN  [value |-> IsFinite(r.value) /\ Floor(r.value) = r.value, t |-> r.t]

\* increaseIndentIf, lines 2308-2316
IncreaseIndentIf(value, t) == IF value THEN WriteLine(IncreaseIndent(t)) ELSE t

\* decreaseIndentIf, lines 2322-2329
DecreaseIndentIf(value1, value2, t) ==
    LET t1 == IF value1 THEN DecreaseIndent(t) ELSE t
    IN  IF value2 THEN DecreaseIndent(t1) ELSE t1

\* emitPropertyAccessExpression from the emission of the expression on,
\* lines 992-997; shouldEmitDotDot is the answer of
\* needsDotDotForPropertyAccess and the trace after it
EmitPropertyAccess(node, indentBeforeDot, indentAfterDot, shouldEmitDotDot, ctx) ==
    DecreaseIndentIf(indentBeforeDot, indentAfterDot,
        Emit(Tree[node].name, ctx,
            IncreaseIndentIf(indentAfterDot,
                Write(IncreaseIndentIf(indentBeforeDot,
                          EmitExpression(Tree[node].expression, ctx, shouldEmitDotDot.t)),
                      IF shouldEmitDotDot.value THEN ".." ELSE "."))))

\* emitPropertyAccessExpression after tryEmitConstantValue returned false
\* with the trace t, lines 986-997
EmitPropertyAccessParts(node, ctx, t) ==
    LET at == tree.positions
        indentBeforeDot == NeedsIndentation(at.parent, at.expression, at.dotToken)
        indentAfterDot == NeedsIndentation(at.parent, at.dotToken, at.name)
    IN  EmitPropertyAccess(node, indentBeforeDot, indentAfterDot,
            IF indentBeforeDot THEN [value |-> FALSE, t |-> t]
            ELSE NeedsDotDotForPropertyAccess(Tree[node].expression, t),
            ctx)

\* the statements of an emitter that follow
\* if (tryEmitConstantValue(node)) { return; }
AfterTryEmitConstantValue(emitRest, node, ctx, r) ==
    IF r.returned THEN r
    ELSE IF emitRest = "emitPropertyAccessExpression"
    THEN EmitPropertyAccessParts(node, ctx, r)
    ELSE Write(EmitExpression(Tree[node].argumentExpression, ctx,
                   Write(EmitExpression(Tree[node].expression, ctx, r), "[")),
               "]")

\* emitPropertyAccessExpression, lines 982-997
EmitPropertyAccessExpression(node, ctx, t) ==
    AfterTryEmitConstantValue("emitPropertyAccessExpression", node, ctx,
        TryEmitConstantValue(node, Log(t, "emitPropertyAccessExpression", node)))

\* emitElementAccessExpression, lines 1015-1024
EmitElementAccessExpression(node, ctx, t) ==
    AfterTryEmitConstantValue("emitElementAccessExpression", node, ctx,
        TryEmitConstantValue(node, Log(t, "emitElementAccessExpression", node)))

-----------------------------------------------------------------------------
(* Function bodies, module blocks and the source file, lines 1409-1513,    *)
(* 1600-1619 and 1885-1935, emitted as whole subtrees.  tree gives, for    *)
(* the nodes of the subtree, their positions (nodes), the statements of    *)
(* the file, of module and of block (statements), the multiLine property   *)
(* of the blocks, the emit flags, and what endLexicalEnvironment returns   *)
(* for the environment of the file, of fn and of module (declarations).    *)
(* startLexicalEnvironment and endLexicalEnvironment take no argument: the *)
(* trace records with each call the node whose emitter made it.  The      *)
(* bodies carry the flags of the helpers that emitHelpers writes whatever  *)
(* the printer wrote before (EmitExportStar, EmitSuperHelper,              *)
(* EmitAdvancedSuperHelper), and not EmitEmitHelpers.                      *)

\* getNodeEmitFlags(node), line 152
GetNodeEmitFlags(node) ==
    IF tree.kind = "bodies" /\ node \in DOMAIN tree.emitFlags
    THEN tree.emitFlags[node] ELSE {}

\* node.statements as a NodeArray
Statements(node) ==
    NodeArray([k \in 1..Len(tree.statements[node]) |-> tree.nodes[tree.statements[node][k]]],
              FALSE)

\* writer.getLine(): the line terminators written so far.  writeLine
\* writes one unless the writer is at the start of a line, where it is
\* after a line terminator until text is written.
GetLine(t) ==
    Cardinality({k \in 1..Len(t.events) :
        /\ t.events[k][1] = "writeLine"
        /\ \E j \in 1..(k - 1) :
              /\ t.events[j][1] = "write"
              /\ t.events[j][2] # ""
              /\ \A m \in (j + 1)..(k - 1) : t.events[m][1] # "writeLine"})

\* isPrologueDirective(node): an expression statement of a string literal
IsPrologueDirective(node) ==
    /\ Tree[node].kind = "ExpressionStatement"
    /\ Tree[Tree[node].expression].kind = "StringLiteral"

\* PrologueDirectivesWritten changed so that it always answers 0.
PrologueDirectivesWrittenNone(statements, i) == 0

\* What emitPrologueDirectives returns, lines 1941-1956: the number of
\* prologue directives at the start of statements, counted from i on.
RECURSIVE PrologueDirectivesWritten(_, _)
PrologueDirectivesWritten(statements, i) ==
    IF i > Len(statements) \/ ~IsPrologueDirective(statements[i]) THEN i - 1
    ELSE PrologueDirectivesWritten(statements, i + 1)

\* What emitPrologueDirectives writes, lines 1941-1956, from statement i
\* on; statements are numbered from 1.
RECURSIVE EmitPrologueDirectivesOfTree(_, _, _, _, _)
EmitPrologueDirectivesOfTree(statements, startWithNewLine, i, ctx, t) ==
    IF i > Len(statements) \/ ~IsPrologueDirective(statements[i]) THEN t
    ELSE InOrder(<<t, EmitPrologueDirectivesOfTree(statements, startWithNewLine, i + 1,
                          ctx, Call("emit", statements[i], ctx,
                                    WriteLineWhen(startWithNewLine \/ i > 1, t)))>>)

\* The lines of the helper texts, lines 62-85: each text begins with a
\* line break, so that its first line is empty.
HelperLines ==
    [exportStarHelper |->
         <<"", "function __export(m) {",
           "    for (var p in m) if (!exports.hasOwnProperty(p)) exports[p] = m[p];",
           "}">>,
     superHelper |-> <<"", "const _super = name => super[name];">>,
     advancedSuperHelper |->
         <<"", "const _super = (function (geti, seti) {",
           "    const cache = Object.create(null);",
           "    return name => cache[name] || (cache[name] = { get value() { return geti(name); }, set value(v) { seti(name, v); } });",
           "})(name => super[name], (name, value) => super[name] = value);">>]

\* writeLines, lines 2026-2037, from line i of lines on
RECURSIVE WriteLines(_, _, _)
WriteLines(lines, i, t) ==
    IF i > Len(lines) THEN t
    ELSE WriteLines(lines, i + 1,
                    WriteWhen(lines[i] # "", WriteLineWhen(lines[i] # "" /\ i > 1, t),
                              lines[i]))

\* the helper flags of a node whose text emitHelpers writes in every state
HelperFlags == {"EmitExportStar", "EmitSuperHelper", "EmitAdvancedSuperHelper"}

\* what emitHelpers(node) returns, lines 1958-1979
HelpersEmitted(node) == GetNodeEmitFlags(node) \cap HelperFlags # {}

\* what emitHelpers(node) writes, lines 1958-1979
EmitHelpersOfTree(node, t) ==
    LET emitFlags == GetNodeEmitFlags(node)
    IN  WriteLines(IF "EmitAdvancedSuperHelper" \in emitFlags
                   THEN HelperLines.advancedSuperHelper ELSE <<>>, 1,
            WriteLines(IF "EmitSuperHelper" \in emitFlags
                       THEN HelperLines.superHelper ELSE <<>>, 1,
                WriteLines(IF "EmitExportStar" \in emitFlags
                           THEN HelperLines.exportStarHelper ELSE <<>>, 1,
                           Log(t, "emitHelpers", node))))

\* emitLexicalEnvironment, lines 1915-1935, from its declaration i on
RECURSIVE EmitLexicalEnvironment(_, _, _, _, _)
EmitLexicalEnvironment(declarations, newLine, i, ctx, t) ==
    IF Len(declarations) = 0 THEN t
    ELSE IF i > Len(declarations)
    THEN IF newLine THEN WriteLine(t) ELSE Write(t, " ")
    ELSE InOrder(<<t, EmitLexicalEnvironment(declarations, newLine, i + 1, ctx,
                          Emit(declarations[i], ctx,
                               IF newLine THEN WriteLine(t) ELSE Write(t, " ")))>>)

\* endLexicalEnvironment() called by the emitter of node
EndLexicalEnvironment(node, t) == Log(t, "endLexicalEnvironment", node)

\* startLexicalEnvironment() called by the emitter of node
StartLexicalEnvironment(node, t) == Log(t, "startLexicalEnvironment", node)

\* emitSignatureHead, lines 1445-1449, and emitArrowFunctionHead, lines
\* 1070-1075, for a signature with no type parameter, no parameter and no
\* return type
EmitSignatureHead(emitSignatureHead, node, ctx, t) ==
    LET t1 == EmitList(tree.nodes[node], UndefinedArray,
                       {"CommaDelimited", "SpaceBetweenSiblings", "SingleLine", "Indented",
                        "AngleBrackets", "OptionalIfUndefined", "OptionalIfEmpty"},
                       Undefined, Undefined, ctx, t)
        t2 == EmitList(tree.nodes[node], NodeArray(<<>>, FALSE),
                       {"CommaDelimited", "SpaceBetweenSiblings", "SingleLine", "Indented",
                        "Parenthesis"},
                       Undefined, Undefined, ctx, t1)
    IN  WriteWhen(emitSignatureHead = "emitArrowFunctionHead", t2, " =>")

\* shouldEmitBlockFunctionBodyOnSingleLine, lines 1451-1487
ShouldEmitBlockFunctionBodyOnSingleLine(parentNode, body) ==
    LET range == tree.nodes[body]
        statements == Statements(body).elements
    IN  IF "SingleLine" \in GetNodeEmitFlags(body) THEN TRUE
        ELSE IF tree.multiLine[body] THEN FALSE
        ELSE IF ~NodeIsSynthesized(range) /\ ~RangeIsOnSingleLine(range) THEN FALSE
        ELSE IF \/ ShouldWriteLeadingLineTerminator(range, statements, {"PreserveLines"})
                \/ ShouldWriteClosingLineTerminator(range, statements, {"PreserveLines"})
        THEN FALSE
        ELSE \A k \in 1..Len(statements) :
                 ~ShouldWriteSeparatingLineTerminator(
                      IF k > 1 THEN statements[k - 1] ELSE NoListNode,
                      statements[k], {"PreserveLines"})

\* emitBlockFunctionBody, lines 1489-1513
EmitBlockFunctionBody(parentNode, body, ctx, t) ==
    LET startingLine == GetLine(t)
        t1 == EmitHelpersOfTree(body,
                  EmitPrologueDirectivesOfTree(tree.statements[body], TRUE, 1, ctx,
                      Log(IncreaseIndent(Log(t, "emitBlockFunctionBody", body)),
                          "emitDetachedComments", body)))
        statementOffset == PrologueDirectivesWritten(tree.statements[body], 1)
        helpersEmitted == HelpersEmitted(body)
        t2 == IF /\ statementOffset = 0
                 /\ ~helpersEmitted
                 /\ ShouldEmitBlockFunctionBodyOnSingleLine(parentNode, body)
              THEN IncreaseIndent(
                       EmitList(tree.nodes[body], Statements(body),
                                {"SingleLine", "SpaceBetweenSiblings", "SpaceBetweenBraces"},
                                Undefined, Undefined, ctx, DecreaseIndent(t1)))
              ELSE EmitList(tree.nodes[body], Statements(body), {"MultiLine"},
                            statementOffset, Undefined, ctx, t1)
        endingLine == GetLine(t2)
        t3 == EmitLexicalEnvironment(tree.declarations[parentNode],
                                     startingLine # endingLine, 1, ctx,
                                     EndLexicalEnvironment(parentNode, t2))
    IN  DecreaseIndent(Log(t3, "emitLeadingComments", body))

\* emitSignatureAndBody, lines 1409-1443; body is "undefined" for a
\* signature with no body
EmitSignatureAndBody(node, emitSignatureHead, ctx, t) ==
    LET body == Tree[node].body
        t0 == Log(t, "emitSignatureAndBody", node)
    IN  IF body # "undefined"
        THEN IF Tree[body].kind = "Block"
             THEN LET indentedFlag == "Indented" \in GetNodeEmitFlags(node)
                      t1 == IncreaseIndentWhen(indentedFlag, t0)
                      savedTempFlags == t1.tempFlags
                      t2 == StartLexicalEnvironment(node, [t1 EXCEPT !.tempFlags = 0])
                      t3 == Write(EmitSignatureHead(emitSignatureHead, node, ctx, t2), " {")
                      t4 == Write(Call("emitBlockFunctionBody",
                                       [parentNode |-> node, body |-> body], ctx, t3),
                                  "}")
                      t5 == DecreaseIndentWhen(indentedFlag, t4)
                  IN  [t5 EXCEPT !.tempFlags = savedTempFlags]
             ELSE EmitExpression(body, ctx,
                      Write(EmitSignatureHead(emitSignatureHead, node, ctx, t0), " "))
        ELSE Write(EmitSignatureHead(emitSignatureHead, node, ctx, t0), ";")

\* emitFunctionDeclarationOrExpression, lines 1401-1407, for a function
\* with no decorator and no modifier
EmitFunctionDeclarationOrExpression(node, ctx, t) ==
    Call("emitSignatureAndBody",
         [node |-> node, emitSignatureHead |-> "emitSignatureHead"], ctx,
         Emit(Tree[node].name, ctx, Write(t, "function ")))

\* emitArrowFunction, lines 1063-1068
EmitArrowFunction(node, ctx, t) ==
    Call("emitSignatureAndBody",
         [node |-> node, emitSignatureHead |-> "emitArrowFunctionHead"], ctx, t)

\* isSingleLineEmptyBlock, lines 2480-2484
IsSingleLineEmptyBlock(block) ==
    /\ ~tree.multiLine[block]
    /\ Len(tree.statements[block]) = 0
    /\ RangeEndIsOnSameLineAsRangeStart(tree.nodes[block], tree.nodes[block])

\* emitBlockStatements, lines 1218-1225
EmitBlockStatements(node, ctx, t) ==
    IF "SingleLine" \in GetNodeEmitFlags(node)
    THEN EmitList(tree.nodes[node], Statements(node),
                  {"SpaceBetweenBraces", "SpaceBetweenSiblings", "SingleLine"},
                  Undefined, Undefined, ctx, t)
    ELSE EmitList(tree.nodes[node], Statements(node), {"Indented", "MultiLine"},
                  Undefined, Undefined, ctx, t)

\* emitModuleBlock that opens a lexical environment for every block.
EmitModuleBlockAlways(node, ctx, t) ==
    LET t0 == Log(t, "emitModuleBlock", node)
        savedTempFlags == t0.tempFlags
        t1 == StartLexicalEnvironment(node, [t0 EXCEPT !.tempFlags = 0])
        t2 == IncreaseIndent(Write(t1, "{"))
        startingLine == GetLine(t2)
        t3 == EmitBlockStatements(node, ctx, t2)
        endingLine == GetLine(t3)
        t4 == EmitLexicalEnvironment(tree.declarations[node],
                                     startingLine # endingLine, 1, ctx,
                                     EndLexicalEnvironment(node, t3))
    IN  [Write(t4, "}") EXCEPT !.tempFlags = savedTempFlags]

\* emitModuleBlock, lines 1600-1619
EmitModuleBlock(node, ctx, t) ==
    LET t0 == Log(t, "emitModuleBlock", node)
    IN  IF IsSingleLineEmptyBlock(node) THEN Write(t0, "{ }")
        ELSE LET savedTempFlags == t0.tempFlags
                 t1 == StartLexicalEnvironment(node, [t0 EXCEPT !.tempFlags = 0])
                 t2 == IncreaseIndent(Write(t1, "{"))
                 startingLine == GetLine(t2)
                 t3 == EmitBlockStatements(node, ctx, t2)
                 endingLine == GetLine(t3)
                 t4 == EmitLexicalEnvironment(tree.declarations[node],
                                              startingLine # endingLine, 1, ctx,
                                              EndLexicalEnvironment(node, t3))
             IN  [Write(t4, "}") EXCEPT !.tempFlags = savedTempFlags]

\* emitSourceFile, lines 1885-1907, after the worker has logged the call,
\* for a file with no shebang
EmitSourceFile(node, ctx, t) ==
    LET t1 == EmitPrologueDirectivesOfTree(tree.statements[node], FALSE, 1, ctx,
                  Log(Log(WriteLine(t), "emitShebang", node), "emitDetachedComments", node))
        statementOffset == PrologueDirectivesWritten(tree.statements[node], 1)
        t2 == IF "NoLexicalEnvironment" \in GetNodeEmitFlags(node)
              THEN EmitList(tree.nodes[node], Statements(node), {"MultiLine"},
                            statementOffset, Undefined, ctx, EmitHelpersOfTree(node, t1))
              ELSE LET savedTempFlags == t1.tempFlags
                       a1 == StartLexicalEnvironment(node, [t1 EXCEPT !.tempFlags = 0])
                       a2 == EmitList(tree.nodes[node], Statements(node), {"MultiLine"},
                                      statementOffset, Undefined, ctx,
                                      EmitHelpersOfTree(node, a1))
                       a3 == EmitLexicalEnvironment(tree.declarations[node], TRUE, 1, ctx,
                                                    EndLexicalEnvironment(node, a2))
                   IN  [a3 EXCEPT !.tempFlags = savedTempFlags]
    IN  Log(t2, "emitLeadingComments", "endOfFileToken")

-----------------------------------------------------------------------------
(* The state machine of one printFiles run.                                *)

NoName == <<>>
EmptyMemo == [n \in NodeIds |-> NoName]
\* no part of the tree is observed
NoTree == [kind |-> "none"]

NoCall == [node |-> 0, text |-> NoName, fresh |-> FALSE, by |-> "none", taken |-> {}]

\* A frame of an emitter that is on the call stack: the tempFlags it saved,
\* whether it zeroed them on entry and assigns them back on exit, and the
\* emit flags of the body it emits.  start and temps are history: the
\* length of the text when the emitter began, and the names that
\* makeTempVariableName returned while this frame was the innermost one.
Frame(saved, restore, emitFlags, start) ==
    [savedTempFlags |-> saved, restore |-> restore, emitFlags |-> emitFlags,
     start |-> start, temps |-> <<>>]

\* node.flags of currentSourceFile
CurrentFileFlags == files[fileIdx]

\* The number of names generated in this pass.
Generations == Cardinality({id \in NodeIds : nodeToGeneratedName[id] # NoName})

\* State after createFilePrinter (lines 118-168): no closure variable of
\* lines 156-166 has been assigned.
InitPrinter(optionChoices) ==
    /\ pc = "idle"
    /\ opts \in optionChoices
    /\ files = <<>>
    /\ bundled = FALSE
    /\ fileIdx = 0
    /\ currentFileIdentifiers = {}
    /\ nodeToGeneratedName = EmptyMemo
    /\ generatedNameSet = {}
    /\ tempFlags = Undefined
    /\ extendsEmitted = "undefined"
    /\ decorateEmitted = "undefined"
    /\ paramEmitted = "undefined"
    /\ awaiterEmitted = "undefined"
    /\ stack = <<>>
    /\ out = <<>>
    /\ last = NoCall
    /\ firstText = EmptyMemo
    /\ context = NoContext
    /\ noSubstitution = {}
    /\ dispatched = NoDispatch
    /\ events = <<>>

\* doPrint, lines 171-174: the start of a pass over one output file.
DoPrint(isBundledEmit, sourceFiles) ==
    /\ UNCHANGED <<tree, run>>
    /\ UNCHANGED dispatchVars
    /\ pc = "idle"
    /\ files' = sourceFiles
    /\ bundled' = isBundledEmit
    /\ fileIdx' = 0
    /\ nodeToGeneratedName' = EmptyMemo
    /\ generatedNameSet' = {}
    /\ pc' = "start"
    /\ last' = NoCall
    /\ firstText' = EmptyMemo
    /\ UNCHANGED <<opts, currentFileIdentifiers, tempFlags, extendsEmitted,
                   decorateEmitted, paramEmitted, awaiterEmitted, stack, out>>

\* doPrint, lines 176-179: "Emit helpers from all the files".
EmitHelpersFromAllFiles ==
    /\ UNCHANGED <<tree, run>>
    /\ UNCHANGED dispatchVars
    /\ pc = "start"
    /\ IF bundled /\ opts.moduleKind # "None"
       THEN SetHelperState(ForEachEmitEmitHelpers(files, 1, CurrentHelperState))
       ELSE UNCHANGED <<out, extendsEmitted, decorateEmitted, paramEmitted, awaiterEmitted>>
    /\ pc' = "transform"
    /\ UNCHANGED <<opts, files, bundled, fileIdx, currentFileIdentifiers,
                   nodeToGeneratedName, generatedNameSet, tempFlags, stack, last,
                   firstText>>

\* initializePrinter, lines 228-240: transformFiles (line 182) runs the
\* transformers, the last of which hands the transform context to the
\* printer; flagged are the nodes the transformers gave NoSubstitution.
InitializePrinter(_context, flagged) ==
    /\ UNCHANGED <<tree, run>>
    /\ pc = "transform"
    /\ context' = _context
    /\ noSubstitution' = flagged
    /\ pc' = "pass"
    /\ UNCHANGED <<opts, files, bundled, fileIdx, currentFileIdentifiers,
                   nodeToGeneratedName, generatedNameSet, tempFlags, extendsEmitted,
                   decorateEmitted, paramEmitted, awaiterEmitted, stack, out, last,
                   firstText, dispatched, events>>

\* The emitter that an action called has returned with the trace t.
Returned(t) ==
    /\ events' = t.events
    /\ noSubstitution' = t.noSubstitution

\* emitWorker calls emitSourceFile (line 569) when the dispatch reaches it.
ContinueEmitSourceFile(node, ctx, t) ==
    IF t.events[Len(t.events)] = <<"emitSourceFile", node>>
    THEN Call("emitSourceFile", node, ctx, t)
    ELSE t

\* printSourceFile (lines 242-250) and emitSourceFile up to the statement
\* list (lines 1885-1901), for the next source file of the pass; emitFlags,
\* identifiers and the number of prologue directives are that file's.
PrintSourceFile(emitFlags, identifiers, prologues) ==
    /\ UNCHANGED <<tree, run>>
    /\ pc = "pass"
    /\ fileIdx < Len(files)
    /\ fileIdx' = fileIdx + 1
    /\ currentFileIdentifiers' = identifiers
    /\ Returned(EmitNodeWithNotificationOption("root", "emitWorker", context,
                                                Trace(<<>>, noSubstitution)))
    /\ dispatched' = [node |-> "root", entry |-> "printSourceFile"]
    /\ SetHelperState(EmitHelpers(emitFlags, files[fileIdx + 1],
                        [CurrentHelperState EXCEPT
                            !.out = EmitPrologueDirectives(prologues, out)]))
    /\ IF "NoLexicalEnvironment" \in emitFlags
       THEN /\ stack' = Append(stack, Frame(tempFlags, FALSE, emitFlags, Len(out)))
            /\ UNCHANGED tempFlags
       ELSE /\ stack' = Append(stack, Frame(tempFlags, TRUE, emitFlags, Len(out)))
            /\ tempFlags' = 0
    /\ pc' = "body"
    /\ last' = NoCall
    /\ UNCHANGED <<opts, files, bundled, nodeToGeneratedName, generatedNameSet,
                   firstText, context>>

\* A dispatch that an emitter of the file body makes through emit (entry
\* "emit") or through emitExpression (entry "emitExpression").
EmitNode(entry, node) ==
    /\ UNCHANGED <<tree, run>>
    /\ pc = "body"
    /\ Returned(Call(entry, node, context, Trace(<<>>, noSubstitution)))
    /\ dispatched' = [node |-> node, entry |-> entry]
    /\ last' = NoCall
    /\ UNCHANGED <<pc, opts, files, bundled, fileIdx, currentFileIdentifiers,
                   nodeToGeneratedName, generatedNameSet, tempFlags, extendsEmitted,
                   decorateEmitted, paramEmitted, awaiterEmitted, stack, out,
                   firstText, context>>

\* An emitter of the file body calls emitList or emitExpressionList (lines
\* 2155-2161) for the list that tree holds.
EmitListOfTree ==
    /\ pc = "body"
    /\ tree.kind = "list"
    /\ Returned(Call("emitNodeList",
                     [emit |-> tree.emit, parentNode |-> tree.parentNode,
                      children |-> tree.children, format |-> tree.format,
                      start |-> tree.start, count |-> tree.count],
                     context, Trace(<<>>, noSubstitution)))
    /\ dispatched' = [node |-> tree.parentNode.node, entry |-> "emitNodeList"]
    /\ last' = NoCall
    /\ UNCHANGED <<pc, opts, files, bundled, fileIdx, currentFileIdentifiers,
                   nodeToGeneratedName, generatedNameSet, tempFlags, extendsEmitted,
                   decorateEmitted, paramEmitted, awaiterEmitted, stack, out,
                   firstText, context, tree, run>>

\* printSourceFile (lines 242-250) and emitSourceFile (lines 1885-1907) to
\* its end, for the next source file of the pass, whose subtree is in tree.
PrintSourceFileOfTree(identifiers) ==
    /\ pc = "pass"
    /\ tree.kind = "bodies"
    /\ fileIdx < Len(files)
    /\ fileIdx' = fileIdx + 1
    /\ currentFileIdentifiers' = identifiers
    /\ LET t == ContinueEmitSourceFile("root", context,
                    EmitNodeWithNotificationOption("root", "emitWorker", context,
                                                   Trace(<<>>, noSubstitution)))
       IN  Returned(t) /\ tempFlags' = t.tempFlags
    /\ dispatched' = [node |-> "root", entry |-> "printSourceFile"]
    /\ SetHelperState(EmitHelpers(GetNodeEmitFlags("root"), files[fileIdx + 1],
                        [CurrentHelperState EXCEPT
                            !.out = EmitPrologueDirectives(0, out)]))
    /\ last' = NoCall
    /\ UNCHANGED <<pc, opts, files, bundled, nodeToGeneratedName, generatedNameSet,
                   stack, firstText, context, tree, run>>

\* emitList starting the next statement of the innermost statement list.
EmitListStatement ==
    /\ UNCHANGED <<tree, run>>
    /\ UNCHANGED dispatchVars
    /\ pc = "body"
    /\ Len(out) < MaxOut
    /\ out' = Append(out, "statement")
    /\ last' = NoCall
    /\ UNCHANGED <<pc, opts, files, bundled, fileIdx, currentFileIdentifiers,
                   nodeToGeneratedName, generatedNameSet, tempFlags, extendsEmitted,
                   decorateEmitted, paramEmitted, awaiterEmitted, stack, firstText>>

\* emitSignatureAndBody for a block body (lines 1413-1423) and
\* emitBlockFunctionBody up to the statement list (lines 1490-1496).
EnterFunction(emitFlags, prologues) ==
    /\ UNCHANGED <<tree, run>>
    /\ UNCHANGED dispatchVars
    /\ pc = "body"
    /\ Len(stack) <= MaxDepth
    /\ Len(out) < MaxOut
    /\ stack' = Append(stack, Frame(tempFlags, TRUE, emitFlags, 0))
    /\ tempFlags' = 0
    /\ SetHelperState(EmitHelpers(emitFlags, CurrentFileFlags,
                        [CurrentHelperState EXCEPT
                            !.out = EmitPrologueDirectives(prologues, out)]))
    /\ last' = NoCall
    /\ UNCHANGED <<pc, opts, files, bundled, fileIdx, currentFileIdentifiers,
                   nodeToGeneratedName, generatedNameSet, firstText>>

\* emitClassDeclarationOrExpression up to the member list (lines 1533-1537).
EnterClass ==
    /\ UNCHANGED <<tree, run>>
    /\ UNCHANGED dispatchVars
    /\ pc = "body"
    /\ Len(stack) <= MaxDepth
    /\ stack' = Append(stack, Frame(tempFlags, TRUE, {}, 0))
    /\ tempFlags' = 0
    /\ last' = NoCall
    /\ UNCHANGED <<pc, opts, files, bundled, fileIdx, currentFileIdentifiers,
                   nodeToGeneratedName, generatedNameSet, extendsEmitted,
                   decorateEmitted, paramEmitted, awaiterEmitted, out, firstText>>

\* emitEnumDeclaration up to the member list (lines 1575-1579).
EnterEnum ==
    /\ UNCHANGED <<tree, run>>
    /\ UNCHANGED dispatchVars
    /\ pc = "body"
    /\ Len(stack) <= MaxDepth
    /\ stack' = Append(stack, Frame(tempFlags, TRUE, {}, 0))
    /\ tempFlags' = 0
    /\ last' = NoCall
    /\ UNCHANGED <<pc, opts, files, bundled, fileIdx, currentFileIdentifiers,
                   nodeToGeneratedName, generatedNameSet, extendsEmitted,
                   decorateEmitted, paramEmitted, awaiterEmitted, out, firstText>>

\* emitModuleBlock for a block that is not a single-line empty block, up to
\* its statements (lines 1605-1612).
EnterModuleBlock ==
    /\ UNCHANGED <<tree, run>>
    /\ UNCHANGED dispatchVars
    /\ pc = "body"
    /\ Len(stack) <= MaxDepth
    /\ stack' = Append(stack, Frame(tempFlags, TRUE, {}, 0))
    /\ tempFlags' = 0
    /\ last' = NoCall
    /\ UNCHANGED <<pc, opts, files, bundled, fileIdx, currentFileIdentifiers,
                   nodeToGeneratedName, generatedNameSet, extendsEmitted,
                   decorateEmitted, paramEmitted, awaiterEmitted, out, firstText>>

\* emitSignatureAndBody for a body that is an expression (lines 1432-1436):
\* the head and a space are written and the body is emitted; tempFlags is
\* neither saved nor assigned.
EnterExpressionBody ==
    /\ UNCHANGED <<tree, run>>
    /\ UNCHANGED dispatchVars
    /\ pc = "body"
    /\ Len(stack) <= MaxDepth
    /\ stack' = Append(stack, Frame(tempFlags, FALSE, {}, 0))
    /\ last' = NoCall
    /\ UNCHANGED <<pc, opts, files, bundled, fileIdx, currentFileIdentifiers,
                   nodeToGeneratedName, generatedNameSet, tempFlags, extendsEmitted,
                   decorateEmitted, paramEmitted, awaiterEmitted, out, firstText>>

\* emitObjectLiteralExpression for a literal with properties, up to the
\* property list (lines 966-975); emitFlags are the emit flags of the
\* literal, of which Indented makes the emitter indent.  tempFlags is
\* neither saved nor assigned.
EnterObjectLiteral(emitFlags) ==
    /\ UNCHANGED <<tree, run>>
    /\ UNCHANGED dispatchVars
    /\ pc = "body"
    /\ Len(stack) <= MaxDepth
    /\ stack' = Append(stack, Frame(tempFlags, FALSE, emitFlags, 0))
    /\ last' = NoCall
    /\ UNCHANGED <<pc, opts, files, bundled, fileIdx, currentFileIdentifiers,
                   nodeToGeneratedName, generatedNameSet, tempFlags, extendsEmitted,
                   decorateEmitted, paramEmitted, awaiterEmitted, out, firstText>>

\* The end of the innermost emitter with the assignment of lines 1430,
\* 1544, 1581 and 1617 left out.
LeaveScopeWithoutRestore ==
    /\ UNCHANGED <<tree, run>>
    /\ UNCHANGED dispatchVars
    /\ pc = "body"
    /\ Len(stack) > 1
    /\ stack' = SubSeq(stack, 1, Len(stack) - 1)
    /\ last' = NoCall
    /\ UNCHANGED <<pc, opts, files, bundled, fileIdx, currentFileIdentifiers,
                   nodeToGeneratedName, generatedNameSet, tempFlags, extendsEmitted,
                   decorateEmitted, paramEmitted, awaiterEmitted, out, firstText>>

\* The end of the innermost function, class, enum, module or object
\* literal emitter: tempFlags = savedTempFlags where the emitter saved
\* them (lines 1430, 1544, 1581, 1617).
LeaveScope ==
    /\ UNCHANGED <<tree, run>>
    /\ UNCHANGED dispatchVars
    /\ pc = "body"
    /\ Len(stack) > 1
    /\ LET frame == stack[Len(stack)]
       IN  tempFlags' = IF frame.restore THEN frame.savedTempFlags ELSE tempFlags
    /\ stack' = SubSeq(stack, 1, Len(stack) - 1)
    /\ last' = NoCall
    /\ UNCHANGED <<pc, opts, files, bundled, fileIdx, currentFileIdentifiers,
                   nodeToGeneratedName, generatedNameSet, extendsEmitted,
                   decorateEmitted, paramEmitted, awaiterEmitted, out, firstText>>

\* History of a generation: a temp name is noted in the innermost frame.
NoteTemp(r, text) ==
    IF r.by = "temp"
    THEN [stack EXCEPT ![Len(stack)].temps = Append(@, text)]
    ELSE stack

\* getGeneratedIdentifier(node), lines 2606-2609, called by getTextOfNode
\* for a generated identifier that is being emitted.
GetGeneratedIdentifier(node) ==
    /\ UNCHANGED <<tree, run>>
    /\ UNCHANGED dispatchVars
    /\ pc = "body"
    /\ LET id == GetNodeIdForGeneratedIdentifier(node)
           memo == MemoLookup(nodeToGeneratedName, id)
       IN  IF memo # NoName
           THEN /\ last' = [node |-> node, text |-> memo, fresh |-> FALSE,
                            by |-> "memo", taken |-> {}]
                /\ firstText' = IF firstText[node] = NoName
                                THEN [firstText EXCEPT ![node] = memo]
                                ELSE firstText
                /\ UNCHANGED <<pc, nodeToGeneratedName, generatedNameSet, tempFlags,
                               stack>>
           ELSE LET r == GenerateIdentifier(node, tempFlags, generatedNameSet)
                    text == UnescapeIdentifier(r.name)
                IN  /\ Generations < MaxRequests
                    /\ IF r.hang
                       THEN /\ pc' = "hang"
                            /\ tempFlags' = r.tempFlags
                            /\ UNCHANGED <<nodeToGeneratedName, generatedNameSet,
                                           stack, last, firstText>>
                       ELSE /\ nodeToGeneratedName' =
                                   [nodeToGeneratedName EXCEPT ![id] = text]
                            /\ generatedNameSet' = r.generatedNameSet
                            /\ tempFlags' = r.tempFlags
                            /\ stack' = NoteTemp(r, text)
                            /\ last' = [node |-> node, text |-> text, fresh |-> TRUE,
                                        by |-> r.by, taken |-> generatedNameSet]
                            /\ firstText' = IF firstText[node] = NoName
                                            THEN [firstText EXCEPT ![node] = text]
                                            ELSE firstText
                            /\ pc' = pc
    /\ UNCHANGED <<opts, files, bundled, fileIdx, currentFileIdentifiers,
                   extendsEmitted, decorateEmitted, paramEmitted, awaiterEmitted, out>>

\* The end of emitSourceFile (lines 1902-1906) and of printSourceFile.
EndSourceFile ==
    /\ UNCHANGED <<tree, run>>
    /\ UNCHANGED dispatchVars
    /\ pc = "body"
    /\ Len(stack) = 1
    /\ LET frame == stack[1]
       IN  tempFlags' = IF frame.restore THEN frame.savedTempFlags ELSE tempFlags
    /\ stack' = <<>>
    /\ pc' = "pass"
    /\ last' = NoCall
    /\ UNCHANGED <<opts, files, bundled, fileIdx, currentFileIdentifiers,
                   nodeToGeneratedName, generatedNameSet, extendsEmitted,
                   decorateEmitted, paramEmitted, awaiterEmitted, out, firstText>>

\* No printFiles call is observed: the passes are taken on their own, and
\* the files they write are not recorded.
NoRun == [at |-> "none"]

\* compilerOptions[name]; an option that was not given is undefined, which
\* the tests of the printer take as false
Option(name) == IF name \in DOMAIN opts THEN opts[name] ELSE FALSE

\* The writeFile calls of doPrint, lines 191-202, for the expected file that
\* emitFile is at: the source map, then the output file.
WriteFiles(r) ==
    IF r = NoRun THEN r
    ELSE LET names == r.expected[r.idx + 1]
         IN  [r EXCEPT !.at = "printFile returned",
                       !.written = @ \o (IF Option("sourceMap") /\ ~Option("inlineSourceMap")
                                         THEN <<names.sourceMapFilePath>> ELSE <<>>)
                                    \o <<names.jsFilePath>>]

\* The end of doPrint, lines 184-225: the output is written and the state
\* of the pass is reset.  writer.reset() empties the text; the parameters
\* and locals of doPrint (sourceFiles, isBundledEmit, the loop index) end
\* with the call.
FinishPrint ==
    /\ UNCHANGED tree
    /\ pc = "pass"
    /\ fileIdx = Len(files)
    /\ run' = WriteFiles(run)
    /\ pc' = "idle"
    /\ out' = <<>>
    /\ tempFlags' = TempFlags_Auto
    /\ fileIdx' = 0
    /\ extendsEmitted' = "false"
    /\ decorateEmitted' = "false"
    /\ paramEmitted' = "false"
    /\ awaiterEmitted' = "false"
    /\ files' = <<>>
    /\ bundled' = FALSE
    /\ last' = NoCall
    /\ firstText' = EmptyMemo
    /\ context' = NoContext
    /\ noSubstitution' = {}
    /\ dispatched' = NoDispatch
    /\ events' = <<>>
    /\ UNCHANGED <<opts, currentFileIdentifiers, nodeToGeneratedName,
                   generatedNameSet, stack>>

\* the variables of the printer and of the observed tree
passVars == <<pc, opts, files, bundled, fileIdx, currentFileIdentifiers,
              nodeToGeneratedName, generatedNameSet, tempFlags, extendsEmitted,
              decorateEmitted, paramEmitted, awaiterEmitted, stack, out, last,
              firstText, context, noSubstitution, dispatched, events, tree>>

\* EmitDeclaration with the result of writeDeclarationFile taken alone.
EmitDeclarationResultOnly(r, names, result) ==
    IF names.declarationFilePath # <<>>
    THEN [r EXCEPT !.emitSkipped = result,
                   !.declarations = Append(@, names.declarationFilePath),
                   !.idx = @ + 1, !.at = "forEach"]
    ELSE [r EXCEPT !.idx = @ + 1, !.at = "forEach"]

\* emitFile, lines 113-115: writeDeclarationFile, of another module, is
\* called for a file that has a declaration path, and answers result;
\* emitFile returns to forEachExpectedEmitFile.
EmitDeclaration(r, names, result) ==
    IF names.declarationFilePath # <<>>
    THEN [r EXCEPT !.emitSkipped = result \/ @,
                   !.declarations = Append(@, names.declarationFilePath),
                   !.idx = @ + 1, !.at = "forEach"]
    ELSE [r EXCEPT !.idx = @ + 1, !.at = "forEach"]

\* host.isEmitBlocked(jsFilePath)
IsEmitBlocked(jsFilePath) == jsFilePath \in run.blocked

\* emitFile, lines 104-116, called by forEachExpectedEmitFile (line 96) for
\* the next expected file: printFile is doPrint, whose pass begins here, or
\* the file is skipped and emitFile runs to its end.
EmitFile ==
    /\ pc = "idle"
    /\ run.at = "forEach"
    /\ run.idx < Len(run.expected)
    /\ LET names == run.expected[run.idx + 1]
       IN  IF ~IsEmitBlocked(names.jsFilePath) /\ ~Option("noEmit")
           THEN DoPrint(names.isBundledEmit, names.sourceFiles)
           ELSE /\ \E result \in BOOLEAN :
                     run' = EmitDeclaration([run EXCEPT !.emitSkipped = TRUE], names, result)
                /\ UNCHANGED passVars

\* emitFile, lines 113-115, after printFile returned
EmitFileAfterPrintFile ==
    /\ pc = "idle"
    /\ run.at = "printFile returned"
    /\ \E result \in BOOLEAN :
          run' = EmitDeclaration(run, run.expected[run.idx + 1], result)
    /\ UNCHANGED passVars

\* printFiles, lines 98-102: forEachExpectedEmitFile returned
PrintFilesReturn ==
    /\ pc = "idle"
    /\ run.at = "forEach"
    /\ run.idx = Len(run.expected)
    /\ run' = [run EXCEPT !.at = "returned", !.returned = <<[emitSkipped |-> run.emitSkipped]>>]
    /\ UNCHANGED passVars

-----------------------------------------------------------------------------
(* The runs that exercise the name resolver: the files carry no helper     *)
(* flags, and the trees hold the generated identifiers of Nodes.           *)

Options(noEmitHelpers, languageVersion, emitDecoratorMetadata, moduleKind, globalNames) ==
    [noEmitHelpers |-> noEmitHelpers, languageVersion |-> languageVersion,
     emitDecoratorMetadata |-> emitDecoratorMetadata, moduleKind |-> moduleKind,
     globalNames |-> globalNames]

\* a transform context with no notification and no substitution
PlainContext == Context({}, TRUE, {}, "identity", "identity")

\* sourceFile.identifiers of the files printed: no name; a temp name, the
\* module's name and a name of the makeUniqueName pattern
NameTables == {{}, {UnderscoreLetter(0), Str_M, <<"x", "_", "1">>}}

\* The generated identifiers of the trees printed.
NameNodes == {1, 2, 3, 5, 8, 9, 13}

\* The resolver reserves the second name of the temp pattern.
NameOptions == {Options(FALSE, "ES5", FALSE, "None", {UnderscoreLetter(1)})}

\* sourceFiles of a doPrint call: one file, or the 1..MaxFiles files of a
\* bundle, each given by its node.flags
SourceFiles(isBundledEmit, flagChoices) ==
    IF isBundledEmit THEN UNION {[1..n -> flagChoices] : n \in 1..MaxFiles}
    ELSE [1..1 -> flagChoices]

InitNames == InitPrinter(NameOptions) /\ run = NoRun /\ tree = NoTree

NextNames ==
    \/ \E b \in BOOLEAN : \E fs \in SourceFiles(b, {{}}) : DoPrint(b, fs)
    \/ EmitHelpersFromAllFiles
    \/ InitializePrinter(PlainContext, {})
    \/ \E ef \in {{}, {"NoLexicalEnvironment"}} : \E t \in NameTables :
          PrintSourceFile(ef, t, 0)
    \/ EnterFunction({}, 0)
    \/ EnterClass
    \/ EnterEnum
    \/ EnterModuleBlock
    \/ LeaveScope
    \/ \E node \in NameNodes : GetGeneratedIdentifier(node)
    \/ EndSourceFile
    \/ FinishPrint

SpecNames == InitNames /\ [][NextNames]_vars

-----------------------------------------------------------------------------
(* The runs that exercise the emit helpers: the files and the function     *)
(* bodies carry helper flags, and the trees hold statements, functions,    *)
(* classes and one generated identifier.                                   *)

HelperOptions ==
    {Options(FALSE, "ES5", TRUE, "None", {}),
     Options(FALSE, "ES5", TRUE, "AMD", {}),
     Options(FALSE, "ES5", FALSE, "None", {}),
     Options(FALSE, "ES6", TRUE, "None", {}),
     Options(TRUE, "ES5", TRUE, "AMD", {})}

\* node.flags of the source files
HelperFileFlags ==
    {{"HasClassExtends"},
     {"HasClassExtends", "HasDecorators", "HasParamDecorators", "HasAsyncFunctions"}}

\* the emit flags of the source file nodes
HelperFileEmitFlags ==
    {{}, {"EmitEmitHelpers"}, {"EmitEmitHelpers", "EmitExportStar"}}

\* the emit flags of the function bodies
HelperBodyEmitFlags ==
    {{}, {"EmitEmitHelpers", "EmitExportStar"},
     {"EmitSuperHelper", "EmitAdvancedSuperHelper"}}

Init == InitPrinter(HelperOptions) /\ run = NoRun /\ tree = NoTree

Next ==
    \/ \E b \in BOOLEAN : \E fs \in SourceFiles(b, HelperFileFlags) : DoPrint(b, fs)
    \/ EmitHelpersFromAllFiles
    \/ InitializePrinter(PlainContext, {})
    \/ \E ef \in HelperFileEmitFlags : \E n \in 0..1 : PrintSourceFile(ef, {}, n)
    \/ EmitListStatement
    \/ \E ef \in HelperBodyEmitFlags : EnterFunction(ef, 0)
    \/ EnterClass
    \/ LeaveScope
    \/ EndSourceFile
    \/ FinishPrint

Spec == Init /\ [][Next]_vars

-----------------------------------------------------------------------------
(* The runs that exercise the dispatch: one source file whose emitters     *)
(* dispatch the nodes of Tree under every transform context.               *)

HookChoices == {"undefined", "identity", "substitute"}

ExpressionNodes == {node \in TreeIds : Tree[node].isExpression}

\* The transform contexts: notification for no node, for one or for all;
\* expression substitution enabled for no node or for the expressions.  The
\* interceptor of the source file node calls its callback: the file body
\* is emitted.
DispatchContexts ==
    {c \in {Context(n, cb, en, ih, eh) :
                n \in {{}, {"x"}, TreeIds}, cb \in BOOLEAN, en \in {{}, ExpressionNodes},
                ih \in HookChoices, eh \in HookChoices} :
        "root" \in c.notify => c.callsBack}

\* nodes dispatched through emit, and through emitExpression
EmitNodes == {"stmt", "x", "one", "export", "elided"}
EmitExpressionNodes == {"x", "one", "elided"}

InitDispatch == InitPrinter(NameOptions) /\ run = NoRun /\ tree = NoTree

NextDispatch ==
    \/ \E fs \in SourceFiles(FALSE, {{}}) : DoPrint(FALSE, fs)
    \/ EmitHelpersFromAllFiles
    \/ \E c \in DispatchContexts : \E flagged \in {{}, {"x"}} : InitializePrinter(c, flagged)
    \/ PrintSourceFile({}, {}, 0)
    \/ \E node \in EmitNodes : EmitNode("emit", node)
    \/ \E node \in EmitExpressionNodes : EmitNode("emitExpression", node)
    \/ EndSourceFile
    \/ FinishPrint

SpecDispatch == InitDispatch /\ [][NextDispatch]_vars

-----------------------------------------------------------------------------
(* The runs that exercise the list emitter: one source file, one of whose  *)
(* emitters hands the list of tree to emitList or emitExpressionList.      *)

ListTree(emit, parentNode, children, format, start, count) ==
    [kind |-> "list", emit |-> emit, parentNode |-> parentNode, children |-> children,
     format |-> format, start |-> start, count |-> count]

\* The parent of the list: on one source line, on two, or synthesized.
ListParents ==
    {ListNode("stmt", FALSE, "undefined", 1, 1), ListNode("stmt", FALSE, "undefined", 1, 2),
     ListNode("stmt", TRUE, "undefined", 1, 1)}

\* A child: on source line 1 or 2, or synthesized with each value of
\* startsOnNewLine; a parsed node that was given the hint.
ListChildren(node) ==
    {ListNode(node, FALSE, "undefined", 1, 1), ListNode(node, FALSE, "undefined", 2, 2),
     ListNode(node, FALSE, "true", 1, 1),
     ListNode(node, TRUE, "undefined", 1, 1), ListNode(node, TRUE, "true", 1, 1),
     ListNode(node, TRUE, "false", 1, 1)}

ListFirstChildren ==
    {ListNode("a", FALSE, "undefined", 1, 1), ListNode("a", TRUE, "undefined", 1, 1),
     ListNode("a", TRUE, "true", 1, 1)}

\* The arrays with children: one child, two children, and a, b, c.
ListArrays ==
    {NodeArray(<<x>>, FALSE) : x \in ListChildren("a")}
    \cup {NodeArray(<<x, y>>, FALSE) : x \in ListFirstChildren, y \in ListChildren("b")}
    \cup {NodeArray(<<ListNode("a", FALSE, "undefined", 1, 1),
                      ListNode("b", FALSE, "undefined", 1, 1), z>>, tc) :
              z \in {ListNode("c", FALSE, "undefined", 1, 1), ListNode("c", TRUE, "true", 1, 1)},
              tc \in BOOLEAN}

ListLineBits == SUBSET {"MultiLine", "PreserveLines", "PreferNewLine", "NoTrailingNewLine"}

ListOptionalBits == SUBSET {"OptionalIfUndefined", "OptionalIfEmpty"}

ListOtherBits ==
    {{}, {"CommaDelimited", "Parenthesis"},
     {"CommaDelimited", "Parenthesis", "SpaceBetweenSiblings"},
     {"Indented", "Braces", "SpaceBetweenBraces", "SpaceBetweenSiblings"},
     {"CommaDelimited", "AllowTrailingComma", "Indented", "SquareBrackets"}}

\* The lists with no child to emit, under every format: the array is
\* undefined or empty, or start and count slice it empty.
EmptyListTrees ==
    {ListTree("emit", ListNode("stmt", FALSE, "undefined", 1, 1), e[1], l \cup o \cup b,
              e[2], e[3]) :
        e \in {<<UndefinedArray, Undefined, Undefined>>,
               <<NodeArray(<<>>, FALSE), Undefined, Undefined>>,
               <<NodeArray(<<ListNode("a", FALSE, "undefined", 1, 1)>>, FALSE), 1, Undefined>>,
               <<NodeArray(<<ListNode("a", FALSE, "undefined", 1, 1)>>, FALSE), 0, 0>>},
        l \in ListLineBits, o \in ListOptionalBits, b \in ListOtherBits}

\* The lists with children, emitted whole, under every line layout.
WholeListTrees ==
    {ListTree("emit", p, cs, l \cup b, Undefined, Undefined) :
        p \in ListParents, cs \in ListArrays, l \in ListLineBits, b \in ListOtherBits}

\* Slices of a, b, c, and the arguments of a call.
OtherListTrees ==
    {ListTree("emit", ListNode("stmt", FALSE, "undefined", 1, 1),
              NodeArray(<<ListNode("a", FALSE, "undefined", 1, 1),
                          ListNode("b", FALSE, "undefined", 1, 1),
                          ListNode("c", TRUE, "true", 1, 1)>>, FALSE),
              l \cup {"CommaDelimited", "Parenthesis"}, sl[1], sl[2]) :
        l \in ListLineBits, sl \in {<<1, Undefined>>, <<1, 1>>, <<0, 2>>}}
    \cup {ListTree("emitExpression", ListNode("stmt", FALSE, "undefined", 1, 1), cs,
                   {"CommaDelimited", "Parenthesis", "SpaceBetweenSiblings"},
                   Undefined, Undefined) : cs \in ListArrays}

ListTrees == EmptyListTrees \cup WholeListTrees \cup OtherListTrees

InitList == InitPrinter(NameOptions) /\ run = NoRun /\ tree \in ListTrees

NextList ==
    \/ \E fs \in SourceFiles(FALSE, {{}}) : DoPrint(FALSE, fs)
    \/ EmitHelpersFromAllFiles
    \/ InitializePrinter(PlainContext, {})
    \/ PrintSourceFile({}, {}, 0)
    \/ EmitListOfTree
    \/ EndSourceFile
    \/ FinishPrint

SpecList == InitList /\ [][NextList]_vars

-----------------------------------------------------------------------------
(* The runs that exercise property and element access: the resolver folds  *)
(* E.Name and E[Name] to a constant or to none, and tree holds the         *)
(* positions of the parts of every access of the file.                     *)

AccessExpressions ==
    {node \in TreeIds :
        Tree[node].kind \in {"PropertyAccessExpression", "ElementAccessExpression"}}

\* 3, 1.5, -1, Infinity, or no constant
AccessValues == {NoValue, Number(30), Number(15), Number(-10), Infinity}

AccessOptions ==
    {Options(FALSE, "ES5", FALSE, "None", {})
        @@ [isolatedModules |-> isolated, removeComments |-> remove,
            constantValues |-> [node \in AccessExpressions |->
                                   CASE node = "member" -> m
                                     [] node = "element" -> e
                                     [] OTHER -> NoValue]] :
        isolated \in BOOLEAN, remove \in BOOLEAN, m \in AccessValues, e \in AccessValues}

AccessTree(parent, expression, dotToken, name) ==
    [kind |-> "access",
     positions |-> [parent |-> parent, expression |-> expression, dotToken |-> dotToken,
                    name |-> name]]

\* The access on one source line; the period on the next line; the member
\* on the next line; synthesized, with and without a hint on the period.
AccessTrees ==
    {AccessTree(ListNode("", FALSE, "undefined", 1, 1), ListNode("", FALSE, "undefined", 1, 1),
                ListNode("", FALSE, "undefined", 1, 1), ListNode("", FALSE, "undefined", 1, 1)),
     AccessTree(ListNode("", FALSE, "undefined", 1, 2), ListNode("", FALSE, "undefined", 1, 1),
                ListNode("", FALSE, "undefined", 2, 2), ListNode("", FALSE, "undefined", 2, 2)),
     AccessTree(ListNode("", FALSE, "undefined", 1, 2), ListNode("", FALSE, "undefined", 1, 1),
                ListNode("", FALSE, "undefined", 1, 1), ListNode("", FALSE, "undefined", 2, 2)),
     AccessTree(ListNode("", TRUE, "undefined", 1, 1), ListNode("", TRUE, "undefined", 1, 1),
                ListNode("", TRUE, "true", 1, 1), ListNode("", TRUE, "undefined", 1, 1)),
     AccessTree(ListNode("", TRUE, "undefined", 1, 1), ListNode("", TRUE, "undefined", 1, 1),
                ListNode("", TRUE, "undefined", 1, 1), ListNode("", TRUE, "undefined", 1, 1))}

InitAccess == InitPrinter(AccessOptions) /\ run = NoRun /\ tree \in AccessTrees

NextAccess ==
    \/ \E fs \in SourceFiles(FALSE, {{}}) : DoPrint(FALSE, fs)
    \/ EmitHelpersFromAllFiles
    \/ InitializePrinter(PlainContext, {})
    \/ PrintSourceFile({}, {}, 0)
    \/ \E node \in AccessExpressions : EmitNode("emit", node)
    \/ \E node \in AccessExpressions : EmitNode("emitExpression", node)
    \/ EndSourceFile
    \/ FinishPrint

SpecAccess == InitAccess /\ [][NextAccess]_vars

-----------------------------------------------------------------------------
(* The runs that exercise the bodies: one source file, whose subtree is    *)
(* in tree and is printed whole.                                           *)

BodyTree(nodes, statements, multiLine, emitFlags, declarations) ==
    [kind |-> "bodies", nodes |-> nodes, statements |-> statements,
     multiLine |-> multiLine, emitFlags |-> emitFlags, declarations |-> declarations]

\* The positions of the nodes: those of block, of its two statements and
\* of module are given, the other parsed nodes are on line 1, the file
\* ends on line 3, and the hoisted declarations are synthesized.
BodyNodes(block, first, second, module) ==
    [root |-> ListNode("root", FALSE, "undefined", 1, 3),
     fn |-> ListNode("fn", FALSE, "undefined", 1, 1),
     overload |-> ListNode("overload", FALSE, "undefined", 1, 1),
     lambda |-> ListNode("lambda", FALSE, "undefined", 1, 1),
     arrow |-> ListNode("arrow", FALSE, "undefined", 1, 1),
     hoisted1 |-> ListNode("hoisted1", TRUE, "undefined", 0, 0),
     hoisted2 |-> ListNode("hoisted2", TRUE, "undefined", 0, 0),
     block |-> block, first |-> first, second |-> second, module |-> module]

\* A block: on one source line, on two, or synthesized.
BlockRanges(node) ==
    {ListNode(node, FALSE, "undefined", 1, 1), ListNode(node, FALSE, "undefined", 1, 2),
     ListNode(node, TRUE, "undefined", 0, 0)}

\* A statement of block: on line 1 or 2, or synthesized with the hint.
BlockStatements(node) ==
    {ListNode(node, FALSE, "undefined", 1, 1), ListNode(node, FALSE, "undefined", 2, 2),
     ListNode(node, TRUE, "true", 0, 0)}

HoistedDeclarations ==
    {<<>>, <<"hoisted1">>, <<"hoisted1", "hoisted2">>, <<"hoisted2", "hoisted1">>}

\* The file holds the function fn: every layout of its body, every
\* sequence of hoisted declarations of its environment.
FunctionBodyTrees ==
    {BodyTree(BodyNodes(b, s1, s2, ListNode("module", FALSE, "undefined", 1, 1)),
              [root |-> <<"fn">>, module |-> <<>>, block |-> ss],
              [module |-> FALSE, block |-> ml],
              [root |-> {}, fn |-> {}, module |-> {}, block |-> bf],
              [root |-> <<>>, fn |-> ds, module |-> <<>>]) :
        b \in BlockRanges("block"), s1 \in BlockStatements("first"),
        s2 \in BlockStatements("second"),
        ss \in {<<>>, <<"first">>, <<"first", "second">>},
        ml \in BOOLEAN, bf \in {{}, {"SingleLine"}}, ds \in HoistedDeclarations}

\* The file holds nothing, an arrow function with an expression body, a
\* signature with no body, or a module block that is empty or holds a
\* statement or fn, whose body is { } on one line.
OtherBodyTrees ==
    {BodyTree(BodyNodes(ListNode("block", FALSE, "undefined", 1, 1),
                        ListNode("first", FALSE, "undefined", 1, 1),
                        ListNode("second", FALSE, "undefined", 1, 1), m),
              [root |-> rs, module |-> ms, block |-> <<>>],
              [module |-> ml, block |-> FALSE],
              [root |-> rf, fn |-> ff, module |-> mf, block |-> {}],
              [root |-> rd, fn |-> <<>>, module |-> md]) :
        m \in {ListNode("module", FALSE, "undefined", 1, 1),
               ListNode("module", FALSE, "undefined", 1, 2)},
        rs \in {<<>>, <<"lambda">>, <<"overload">>, <<"module">>, <<"lambda", "module">>},
        ms \in {<<>>, <<"first">>, <<"fn">>},
        ml \in BOOLEAN, rf \in {{}, {"NoLexicalEnvironment"}},
        ff \in {{}, {"Indented"}}, mf \in {{}, {"SingleLine"}},
        rd \in {<<>>, <<"hoisted1">>}, md \in {<<>>, <<"hoisted2">>}}

BodyTrees == FunctionBodyTrees \cup OtherBodyTrees

InitBodies == InitPrinter(NameOptions) /\ run = NoRun /\ tree \in BodyTrees

NextBodies ==
    \/ \E fs \in SourceFiles(FALSE, {{}}) : DoPrint(FALSE, fs)
    \/ EmitHelpersFromAllFiles
    \/ InitializePrinter(PlainContext, {})
    \/ PrintSourceFileOfTree({})
    \/ FinishPrint

SpecBodies == InitBodies /\ [][NextBodies]_vars

-----------------------------------------------------------------------------
(* The runs that exercise the prologue directives and the helpers of the   *)
(* bodies: the file and the block of fn begin with a directive or not,     *)
(* hold a directive after another statement or not, and carry a helper     *)
(* flag or not.                                                            *)

\* the positions of Tree's nodes: everything is on line 1 of the source
PrologueNodes ==
    [n \in {"useStrict", "useAsm"} |-> ListNode(n, FALSE, "undefined", 1, 1)]
    @@ BodyNodes(ListNode("block", FALSE, "undefined", 1, 1),
                 ListNode("first", FALSE, "undefined", 1, 1),
                 ListNode("second", FALSE, "undefined", 1, 1),
                 ListNode("module", FALSE, "undefined", 1, 1))

PrologueTrees ==
    {BodyTree(PrologueNodes,
              [root |-> rs, module |-> <<>>, block |-> bs],
              [module |-> FALSE, block |-> FALSE],
              [root |-> rf, fn |-> {}, module |-> {}, block |-> bf],
              [root |-> rd, fn |-> fd, module |-> <<>>]) :
        rs \in {<<"fn">>, <<"useStrict", "fn">>, <<"first", "useStrict">>, <<"useStrict">>},
        bs \in {<<>>, <<"useAsm">>, <<"useAsm", "second">>, <<"second", "useAsm">>,
                <<"second">>},
        rf \in {{}, {"EmitExportStar"}, {"NoLexicalEnvironment", "EmitExportStar"}},
        bf \in {{}, {"EmitSuperHelper"}, {"SingleLine"},
                {"SingleLine", "EmitAdvancedSuperHelper"}},
        rd \in {<<>>, <<"hoisted2">>}, fd \in {<<>>, <<"hoisted1">>}}

InitPrologue == InitPrinter(NameOptions) /\ run = NoRun /\ tree \in PrologueTrees

NextPrologue ==
    \/ \E fs \in SourceFiles(FALSE, {{}}) : DoPrint(FALSE, fs)
    \/ EmitHelpersFromAllFiles
    \/ InitializePrinter(PlainContext, {})
    \/ PrintSourceFileOfTree({})
    \/ FinishPrint

SpecPrologue == InitPrologue /\ [][NextPrologue]_vars

-----------------------------------------------------------------------------
(* The runs that exercise the temp-name scopes: one source file whose      *)
(* tree nests functions with block and expression bodies, classes, enums   *)
(* and object literals, and holds three identifiers that ask for a temp    *)
(* name.                                                                   *)

\* two Auto identifiers and one that prefers _i
ScopeNodes == {1, 2, 3}

InitScopes == InitPrinter(NameOptions) /\ run = NoRun /\ tree = NoTree

NextScopes ==
    \/ \E fs \in SourceFiles(FALSE, {{}}) : DoPrint(FALSE, fs)
    \/ EmitHelpersFromAllFiles
    \/ InitializePrinter(PlainContext, {})
    \/ PrintSourceFile({}, {}, 0)
    \/ EnterFunction({}, 0)
    \/ EnterExpressionBody
    \/ EnterClass
    \/ EnterEnum
    \/ \E ef \in {{}, {"Indented"}} : EnterObjectLiteral(ef)
    \/ LeaveScope
    \/ \E node \in ScopeNodes : GetGeneratedIdentifier(node)
    \/ EndSourceFile
    \/ FinishPrint

SpecScopes == InitScopes /\ [][NextScopes]_vars

-----------------------------------------------------------------------------
(* The runs that exercise makeTempVariableName: the trees hold Auto and    *)
(* Loop identifiers and a Unique identifier whose base is "_", in a file   *)
(* body or in one function body; the files bring their identifier tables.  *)

\* two Auto identifiers, two that prefer _i, and the Unique bases "_" and ""
TempNodes == {1, 2, 3, 4, 5, 19}

\* "_a" ... "_z" without the two slots that the counter skips
TempLetters == {UnderscoreLetter(count) : count \in (0..25) \ {8, 13}}

\* sourceFile.identifiers of the files printed: no name; the names "_i" and
\* "_a"; every letter name of the temp pattern and the first numbered one
TempTables == {{}, {Str_i, UnderscoreLetter(0)}, TempLetters \cup {<<"_", "0">>}}

InitTemp == InitPrinter(NameOptions) /\ run = NoRun /\ tree = NoTree

NextTemp ==
    \/ \E fs \in SourceFiles(FALSE, {{}}) : DoPrint(FALSE, fs)
    \/ EmitHelpersFromAllFiles
    \/ InitializePrinter(PlainContext, {})
    \/ \E ef \in {{}, {"NoLexicalEnvironment"}} : \E t \in TempTables :
          PrintSourceFile(ef, t, 0)
    \/ EnterFunction({}, 0)
    \/ LeaveScope
    \/ \E node \in TempNodes : GetGeneratedIdentifier(node)
    \/ EndSourceFile
    \/ FinishPrint

SpecTemp == InitTemp /\ [][NextTemp]_vars

-----------------------------------------------------------------------------
(* The runs that exercise makeUniqueName and generateNameForNode: the      *)
(* trees hold Unique identifiers, two of them with the same base name, and *)
(* Node identifiers that point to declarations of several kinds.           *)

\* the Unique bases "x", "x" and ""; Node identifiers of a module (directly
\* and through an updated copy), a function, an enum, a variable and a class
UniqueNodes == {6, 20, 19, 8, 17, 11, 13, 15, 21}

InitUnique == InitPrinter(NameOptions) /\ run = NoRun /\ tree = NoTree

NextUnique ==
    \/ \E fs \in SourceFiles(FALSE, {{}}) : DoPrint(FALSE, fs)
    \/ EmitHelpersFromAllFiles
    \/ InitializePrinter(PlainContext, {})
    \/ \E t \in NameTables : PrintSourceFile({}, t, 0)
    \/ EnterFunction({}, 0)
    \/ LeaveScope
    \/ \E node \in UniqueNodes : GetGeneratedIdentifier(node)
    \/ EndSourceFile
    \/ FinishPrint

SpecUnique == InitUnique /\ [][NextUnique]_vars

-----------------------------------------------------------------------------
(* The runs of printFiles: the expected output files, those for which the  *)
(* host blocks emit, and the options noEmit, sourceMap and inlineSourceMap *)
(* vary; every expected file is made of one source file.                   *)

MaxExpected == 2    \* expected output files of one printFiles call

RunOptions ==
    {Options(FALSE, "ES5", FALSE, "None", {})
        @@ [noEmit |-> ne, sourceMap |-> sm, inlineSourceMap |-> ism] :
        ne \in BOOLEAN, sm \in BOOLEAN, ism \in BOOLEAN}

\* the names of the i-th expected file, with a declaration path or without
\* (<<>>: the path is undefined)
EmitFileNames(i, withDeclaration) ==
    [jsFilePath |-> <<"js", i>>, sourceMapFilePath |-> <<"map", i>>,
     declarationFilePath |-> IF withDeclaration THEN <<"d.ts", i>> ELSE <<>>,
     sourceFiles |-> [f \in 1..1 |-> {}], isBundledEmit |-> FALSE]

\* printFiles, lines 86-96, up to the call of forEachExpectedEmitFile
Runs ==
    UNION {{[at |-> "forEach",
             expected |-> [i \in 1..n |-> EmitFileNames(i, d[i])],
             blocked |-> {<<"js", i>> : i \in b},
             idx |-> 0, emitSkipped |-> FALSE, written |-> <<>>, declarations |-> <<>>,
             returned |-> <<>>] :
               d \in [1..n -> BOOLEAN], b \in SUBSET (1..n)} : n \in 0..MaxExpected}

InitRun == InitPrinter(RunOptions) /\ tree = NoTree /\ run \in Runs

NextRun ==
    \/ EmitFile
    \/ EmitHelpersFromAllFiles
    \/ InitializePrinter(PlainContext, {})
    \/ PrintSourceFile({}, {}, 0)
    \/ EndSourceFile
    \/ FinishPrint
    \/ EmitFileAfterPrintFile
    \/ PrintFilesReturn

SpecRun == InitRun /\ [][NextRun]_vars

-----------------------------------------------------------------------------
(* Claims about the name resolver, checked under SpecNames.                *)

\* C1: within one pass, every resolution of a generated identifier returns
\* the text that the first resolution of that identifier returned in the
\* pass, whatever names were generated and whatever scopes were entered or
\* left in between.
C1_SameTextEveryResolution ==
    last.node # 0 => last.text = firstText[last.node]

\* A second resolution of node 1 made inside a nested scope, after a temp
\* name was generated in the enclosing scope and another in the nested one.
C1_Witness ==
    /\ last.node = 1
    /\ ~last.fresh
    /\ Len(stack) = 2
    /\ Len(stack[1].temps) = 1
    /\ Len(stack[2].temps) = 1

NoDuplicates(seq) ==
    \A i, j \in 1..Len(seq) : i # j => seq[i] # seq[j]

\* The Auto, Loop and Unique identifiers resolved in this pass.
Resolved ==
    {id \in NodeIds : /\ nodeToGeneratedName[id] # NoName
                      /\ Nodes[id].autoGenerateKind \in {"Auto", "Loop", "Unique"}}

\* C2 as stated, for the Auto, Loop and Unique requests of a pass over one
\* file whose body opens a lexical environment: the texts resolved for
\* different nodes are pairwise distinct and none is in the file's
\* identifier table.
C2_AllNamesPairwiseDistinct ==
    (~bundled /\ stack # <<>> /\ stack[1].restore) =>
        /\ \A a, b \in Resolved :
              a # b => nodeToGeneratedName[a] # nodeToGeneratedName[b]
        /\ \A a \in Resolved : nodeToGeneratedName[a] \notin currentFileIdentifiers

\* C2 amended: a name that makeTempVariableName or makeUniqueName returns is
\* not in the identifier table of the file being printed, is not globally
\* reserved and differs from every name makeUniqueName returned earlier in
\* the pass; and the names makeTempVariableName returns within one
\* activation of an emitter that zeroes the counter are pairwise distinct.
C2_GeneratedNamesFresh ==
    /\ (last.fresh /\ last.by \in {"temp", "unique"}) =>
          last.text \notin (currentFileIdentifiers \cup opts.globalNames \cup last.taken)
    /\ \A i \in 1..Len(stack) : stack[i].restore => NoDuplicates(stack[i].temps)

\* A makeUniqueName result generated in a nested scope of a file whose
\* identifier table holds the first candidate, after a temp name was
\* generated in the enclosing scope.
C2_Witness ==
    /\ Len(stack) = 2
    /\ Len(stack[1].temps) = 1
    /\ last.fresh
    /\ last.by = "unique"
    /\ last.text = <<"x", "_", "2">>
    /\ <<"x", "_", "1">> \in currentFileIdentifiers

-----------------------------------------------------------------------------
(* Claims about the emit helpers, checked under Spec.                      *)

\* the number of times text was written in this pass
Count(text) == Cardinality({i \in 1..Len(out) : out[i] = text})

\* The file being printed carries HasClassExtends, the target is below ES6
\* and helpers are not disabled.
NeedsExtendsHelper ==
    /\ pc = "body"
    /\ "HasClassExtends" \in CurrentFileFlags
    /\ BelowES6
    /\ ~opts.noEmitHelpers

\* The extends helper is in the text once, before every statement of the
\* body of the file being printed.
ExtendsHelperOnceBeforeStatements ==
    /\ Count("extendsHelper") = 1
    /\ \A i \in (stack[1].start + 1)..Len(out) :
          out[i] = "statement" => \E j \in 1..(i - 1) : out[j] = "extendsHelper"

\* C3 as stated: whenever the file being printed carries HasClassExtends,
\* the target is below ES6 and helpers are not disabled, the extends helper
\* is in the text exactly once, before the first non-prologue statement of
\* the file body.
C3_ExtendsExactlyOnceForFlaggedFile ==
    NeedsExtendsHelper => ExtendsHelperOnceBeforeStatements

\* C3 amended: the extends, decorate, param and awaiter helpers are each
\* written at most once in a pass; and when the source file node being
\* printed also carries the EmitEmitHelpers emit flag, the extends helper is
\* in the text exactly once, before the first non-prologue statement of the
\* file body, however many bodies are emitted afterwards.
C3_HelpersAtMostOnce ==
    /\ \A text \in {"extendsHelper", "decorateHelper", "paramHelper", "awaiterHelper"} :
          Count(text) <= 1
    /\ (NeedsExtendsHelper /\ "EmitEmitHelpers" \in stack[1].emitFlags) =>
          ExtendsHelperOnceBeforeStatements

\* Two statements of a file follow the extends helper, and a function
\* body that carries EmitEmitHelpers has been entered after them.
C3_Witness ==
    /\ NeedsExtendsHelper
    /\ out = <<"extendsHelper", "statement", "statement", "exportStarHelper">>
    /\ Len(stack) = 2
    /\ "EmitEmitHelpers" \in stack[2].emitFlags

\* C4 as stated: the __export helper is written at most once in a pass.
C4_ExportStarAtMostOnce ==
    Count("exportStarHelper") <= 1

\* An emitter of a body has just begun and the body carries EmitExportStar.
BeginsExportStarBody ==
    /\ Len(stack') = Len(stack) + 1
    /\ "EmitExportStar" \in stack'[Len(stack')].emitFlags

\* C4 amended: no already-emitted flag guards the __export helper; it is
\* written once for every file body or function body emitted with the
\* EmitExportStar emit flag, and at no other time.
C4_ExportStarOncePerFlaggedBody ==
    [][IF BeginsExportStarBody
       THEN Count("exportStarHelper")' = Count("exportStarHelper") + 1
       ELSE \/ Count("exportStarHelper")' = Count("exportStarHelper")
            \/ out' = <<>>]_vars

\* Two source files of one bundle carried EmitExportStar and the helper was
\* written for each.
C4_Witness ==
    /\ bundled
    /\ fileIdx = 2
    /\ Count("exportStarHelper") = 2
    /\ Len(stack) = 1

\* C5: the metadata helper is in the text only directly after the decorate
\* helper, and at most once in a pass.
C5_MetadataOnlyAfterDecorate ==
    /\ \A i \in 1..Len(out) :
          out[i] = "metadataHelper" => (i > 1 /\ out[i - 1] = "decorateHelper")
    /\ Count("metadataHelper") <= 1

\* The metadata helper was written and a later body that carries
\* EmitEmitHelpers was emitted in a file with decorators.
C5_Witness ==
    /\ Count("metadataHelper") = 1
    /\ Len(stack) = 2
    /\ "EmitEmitHelpers" \in stack[2].emitFlags
    /\ "HasDecorators" \in CurrentFileFlags
    /\ out[Len(out)] = "exportStarHelper"

-----------------------------------------------------------------------------
(* Claims about the state of a pass.                                       *)

\* C6 as stated: when a pass starts, the first one included, the temp-name
\* counter is zero with no preference flag, no helper-emitted flag is set
\* and the memo and the set of generated names are empty.
C6_PassStartsFromFreshState ==
    pc = "start" =>
        /\ tempFlags = TempFlags_Auto
        /\ Falsy(extendsEmitted) /\ Falsy(decorateEmitted)
        /\ Falsy(paramEmitted) /\ Falsy(awaiterEmitted)
        /\ nodeToGeneratedName = EmptyMemo
        /\ generatedNameSet = {}

-----------------------------------------------------------------------------
(* Claims about the dispatch, checked under SpecDispatch.                  *)

Workers == {"emitWorker", "emitExpressionWorker"}

SubstitutionHooks == {"identifierSubstitution", "expressionSubstitution"}

Emitters == {"emitIdentifier", "emitLiteral", "writeTokenNode", "emitExpressionStatement",
             "emitSourceFile"}

Indices == 1..Len(events)

\* the nodes whose emitStart has no emitEnd yet after the first k calls,
\* innermost last
RECURSIVE OpenMarks(_)
OpenMarks(k) ==
    IF k = 0 THEN <<>>
    ELSE LET open == OpenMarks(k - 1)
             e == events[k]
         IN  IF e[1] = "emitStart" THEN Append(open, e[2])
             ELSE IF e[1] = "emitEnd" /\ open # <<>> THEN SubSeq(open, 1, Len(open) - 1)
             ELSE open

IsOpen(node, k) == \E m \in 1..Len(OpenMarks(k)) : OpenMarks(k)[m] = node

\* every emitEnd closes the innermost open emitStart, of the same node,
\* and a finished dispatch leaves no mark open
MarksPairedAndNested ==
    /\ \A k \in Indices :
          events[k][1] = "emitEnd" =>
              /\ OpenMarks(k - 1) # <<>>
              /\ OpenMarks(k - 1)[Len(OpenMarks(k - 1))] = events[k][2]
    /\ OpenMarks(Len(events)) = <<>>

\* C7 as stated: every node whose worker runs, the source file node and a
\* substitute included, has its own emitStart before the worker and its own
\* emitEnd after it.
C7_EveryEmittedNodeBracketed ==
    \A i \in Indices :
        events[i][1] \in Workers =>
            /\ \E j \in 1..(i - 1) : events[j] = <<"emitStart", events[i][2]>>
            /\ events[i][2] # "root" =>
                  \E k \in (i + 1)..Len(events) : events[k] = <<"emitEnd", events[i][2]>>

\* C7 amended: the marks of a dispatch are paired and properly nested, and
\* a worker runs inside the emitStart/emitEnd pair of its own node, also
\* when the kind produces no text, except for the source file node, emitted
\* by printSourceFile with no mark, and for a substitute, emitted with no
\* mark of its own inside the pair of the node it replaces.
C7_MarksPairedDispatchedNodesBracketed ==
    /\ MarksPairedAndNested
    /\ \A i \in Indices :
          events[i][1] \in Workers =>
              LET node == events[i][2]
              IN  \/ IsOpen(node, i - 1)
                  \/ node = "root" /\ dispatched.node = "root"
                  \/ /\ i > 1
                     /\ events[i - 1][1] \in SubstitutionHooks
                     /\ events[i - 1][2] # node
                     /\ IsOpen(events[i - 1][2], i - 1)

\* The dispatch of an expression statement whose expression was replaced
\* by a substitute has finished.
C7_Witness ==
    /\ dispatched.node = "stmt"
    /\ \E i \in Indices : events[i] = <<"emitWorker", "y">> /\ IsOpen("x", i)
    /\ events[Len(events) - 1] = <<"emitEnd", "stmt">>

\* the worker that an entry point hands to emitNodeWithWorker
WorkerOf(entry) == IF entry = "emit" THEN "emitWorker" ELSE "emitExpressionWorker"

\* The steps of emitNodeWithWorker for node start at call k.
StepsAt(k, node) ==
    /\ k + 2 <= Len(events)
    /\ events[k] = <<"emitLeadingComments", node>>
    /\ events[k + 1] = <<"emitStart", node>>
    /\ events[k + 2][1] \in Workers
    /\ events[k + 2][2] = node
    /\ \E j \in (k + 3)..(Len(events) - 1) :
          /\ events[j] = <<"emitEnd", node>>
          /\ events[j + 1] = <<"emitTrailingComments", node>>
          /\ \A m \in (k + 3)..(j - 1) : events[m][1] # "emitTrailingComments" \/ events[m][2] # node

\* C8: every dispatch through emit or emitExpression starts with the
\* notification check; then, directly if notification is not enabled for
\* the node, or after the interceptor was invoked and when it calls its
\* callback, come leading comments, emitStart, the worker, emitEnd and
\* trailing comments, in this order; the interceptor is invoked at most
\* once for the dispatch.
C8_DispatchOrder ==
    /\ \A i \in Indices :
          (events[i][1] = "isEmitNotificationEnabled" /\ events[i][2] # "root") =>
              LET node == events[i][2]
              IN  IF node \in context.notify
                  THEN /\ i < Len(events)
                       /\ events[i + 1] = <<"onEmitNode", node>>
                       /\ IF context.callsBack
                          THEN StepsAt(i + 2, node)
                          ELSE \A k \in (i + 2)..Len(events) : events[k][2] # node
                  ELSE StepsAt(i + 1, node)
    /\ \A i, j \in Indices :
          (events[i][1] = "onEmitNode" /\ events[j] = events[i]) => i = j
    /\ (dispatched.node \notin {"", "root"}) =>
          /\ events[1] = <<"isEmitNotificationEnabled", dispatched.node>>
          /\ \A i \in Indices :
                events[i] = <<"emitStart", dispatched.node>> /\ i < Len(events) =>
                    \/ events[i + 1] = <<WorkerOf(dispatched.entry), dispatched.node>>
                    \/ events[i - 1][1] = "writeTokenNode"

\* An expression statement dispatched through emit and its expression
\* through emitExpression, both intercepted.
C8_Witness ==
    /\ dispatched = [node |-> "stmt", entry |-> "emit"]
    /\ context.notify = TreeIds
    /\ context.callsBack
    /\ \E i \in Indices : events[i] = <<"emitExpressionWorker", "x">>
    /\ events[Len(events)] = <<"emitTrailingComments", "stmt">>

\* C9 as stated, for a context that supplies both hooks: before the emitter
\* of an identifier or expression that does not carry NoSubstitution runs,
\* a substitution hook was consulted for the node.
C9_HookConsultedForEveryExpression ==
    (context.identifierSubstitution # "undefined" /\ context.expressionSubstitution # "undefined") =>
        \A i \in Indices :
            (/\ events[i][1] \in {"emitIdentifier", "emitLiteral"}
             /\ events[i][2] \notin noSubstitution) =>
                \E j \in 1..(i - 1) :
                    events[j][1] \in SubstitutionHooks /\ events[j][2] = events[i][2]

\* C9 amended: emitWorker consults identifierSubstitution for an identifier
\* and emitExpressionWorker consults expressionSubstitution for a node for
\* which isExpressionSubstitutionEnabled holds, in both cases only if the
\* hook is supplied and the node does not carry NoSubstitution, and before
\* the node's emitter runs; when the hook returns a different node, the
\* substitute is emitted next in place of the original, the original's
\* emitter does not run, the substitute carries NoSubstitution and no hook
\* is invoked on it.
C9_SubstitutionWhenEnabled ==
    /\ \A i \in Indices :
          (events[i][1] = "emitWorker" /\ Tree[events[i][2]].kind = "Identifier") =>
              LET node == events[i][2]
                  consulted == /\ i < Len(events)
                               /\ events[i + 1] = <<"identifierSubstitution", node>>
              IN  consulted <=> (/\ context.identifierSubstitution # "undefined"
                                 /\ node \notin noSubstitution)
    /\ \A i \in Indices :
          events[i][1] = "emitExpressionWorker" =>
              LET node == events[i][2]
                  consulted == /\ i < Len(events)
                               /\ events[i + 1] = <<"expressionSubstitution", node>>
              IN  consulted <=> (/\ node \in context.substitutionEnabled
                                 /\ context.expressionSubstitution # "undefined"
                                 /\ node \notin noSubstitution)
    /\ \A i \in Indices :
          events[i][1] \in SubstitutionHooks =>
              LET node == events[i][2]
                  substitute == Substitute(context[events[i][1]], node)
              IN  /\ \E k \in 1..(i - 1) : events[k][1] \in Workers /\ events[k][2] = node
                  /\ \A k \in 1..i : events[k][1] \in Emitters => events[k][2] # node
                  /\ substitute # node =>
                        /\ i < Len(events)
                        /\ events[i + 1] = <<"emitWorker", substitute>>
                        /\ substitute \in noSubstitution
                        /\ \A k \in Indices :
                              /\ events[k][1] \in Emitters => events[k][2] # node
                              /\ events[k][1] \in SubstitutionHooks => events[k][2] # substitute

\* The expression of a statement was replaced by the substitute that the
\* expression hook returned, and the substitute was written.
C9_Witness ==
    /\ dispatched.node = "stmt"
    /\ context.identifierSubstitution = "substitute"
    /\ \E i \in Indices :
          /\ events[i] = <<"expressionSubstitution", "x">>
          /\ events[i + 1] = <<"emitWorker", "y">>
          /\ events[i + 2] = <<"emitIdentifier", "y">>

\* C10: the dispatch of a node whose kind neither switch has a case for,
\* through emit or through emitExpression, runs no emitter and writes no
\* text, and it returns to its caller after the last step of the wrapper
\* (the trailing comments, or the interceptor that did not call back).
C10_UnmatchedKindWritesNothing ==
    dispatched.node = "elided" =>
        /\ \A i \in Indices : events[i][1] \notin (Emitters \cup {"write"})
        /\ events[Len(events)] \in {<<"emitTrailingComments", "elided">>,
                                    <<"onEmitNode", "elided">>}

\* A node of such a kind was dispatched through emitExpression and its
\* marks were recorded.
C10_Witness ==
    /\ dispatched = [node |-> "elided", entry |-> "emitExpression"]
    /\ \E i \in Indices : events[i] = <<"emitExpressionWorker", "elided">>
    /\ events[Len(events)] = <<"emitTrailingComments", "elided">>

-----------------------------------------------------------------------------
(* Claims about the list emitter, checked under SpecList.                  *)

\* the list emitter has run for the list of tree, and events are its calls
ListEmitted == dispatched.entry = "emitNodeList"

\* the characters of a text handed to write
Characters(text) ==
    CASE text = "" -> <<>>
      [] text = ", " -> <<",", " ">>
      [] text = " |" -> <<" ", "|">>
      [] text = " &" -> <<" ", "&">>
      [] text = "{ }" -> <<"{", " ", "}">>
      [] text = " {" -> <<" ", "{">>
      [] OTHER -> <<text>>

\* The text the calls evs put in the output sink, character by character;
\* a line break is "\n".
RECURSIVE Written(_)
Written(evs) ==
    IF evs = <<>> THEN <<>>
    ELSE (CASE Head(evs)[1] = "write" -> Characters(Head(evs)[2])
            [] Head(evs)[1] = "writeLine" -> <<"\n">>
            [] OTHER -> <<>>) \o Written(Tail(evs))

\* The layout of the calls evs: the line breaks and the children emitted,
\* in order.
RECURSIVE Layout(_)
Layout(evs) ==
    IF evs = <<>> THEN <<>>
    ELSE (CASE Head(evs)[1] = "writeLine" -> <<"\n">>
            [] Head(evs)[1] = "isEmitNotificationEnabled" -> <<Head(evs)[2]>>
            [] OTHER -> <<>>) \o Layout(Tail(evs))

\* The layout that breaks before child k iff breaks[k], and after the last
\* child iff closing.
RECURSIVE LayoutOf(_, _, _, _)
LayoutOf(cs, k, breaks, closing) ==
    IF k > Len(cs) THEN (IF closing THEN <<"\n">> ELSE <<>>)
    ELSE (IF breaks[k] THEN <<"\n">> ELSE <<>>) \o <<cs[k].node>>
         \o LayoutOf(cs, k + 1, breaks, closing)

\* the list is emitted whole and has children
WholeList ==
    /\ tree.children.defined
    /\ tree.start = Undefined
    /\ tree.count = Undefined
    /\ Len(tree.children.elements) > 0

\* the children are a, b, c and none has the starts-on-new-line hint
ChildrenABC ==
    /\ WholeList
    /\ [k \in DOMAIN tree.children.elements |-> tree.children.elements[k].node]
          = <<"a", "b", "c">>
    /\ \A k \in DOMAIN tree.children.elements :
          tree.children.elements[k].startsOnNewLine # "true"
    /\ ~tree.children.hasTrailingComma

\* a multi-line bracketed format with the optional-if-empty bit, and no child
EmptyOptionalMultiLine ==
    /\ tree.children.defined
    /\ tree.children.elements = <<>>
    /\ {"MultiLine", "OptionalIfEmpty"} \subseteq tree.format
    /\ tree.format \cap BracketsMask # {}

\* C11 (as stated): a, b, c under the format made of the comma delimiter,
\* single-line layout and parenthesis brackets is written as `(a, b, c)`, and
\* no child under a multi-line bracketed optional-if-empty format writes nothing.
C11_CommaParenthesisWritesSpaces ==
    ListEmitted /\ tree.kind = "list" =>
        /\ ChildrenABC /\ tree.format = {"CommaDelimited", "Parenthesis"} =>
              Written(events) = <<"(", "a", ",", " ", "b", ",", " ", "c", ")">>
        /\ EmptyOptionalMultiLine => events = <<>>

\* C11 (amended): a, b, c under comma + single-line + parenthesis is written
\* as `(a,b,c)`; it is written as `(a, b, c)` when the format also has the
\* space-between-siblings bit; no child under a multi-line bracketed
\* optional-if-empty format makes no call at all.
C11_SpaceNeedsSpaceBetweenSiblings ==
    ListEmitted /\ tree.kind = "list" =>
        /\ ChildrenABC /\ tree.format = {"CommaDelimited", "Parenthesis"} =>
              Written(events) = <<"(", "a", ",", "b", ",", "c", ")">>
        /\ ChildrenABC
              /\ tree.format = {"CommaDelimited", "Parenthesis", "SpaceBetweenSiblings"} =>
              Written(events) = <<"(", "a", ",", " ", "b", ",", " ", "c", ")">>
        /\ EmptyOptionalMultiLine => events = <<>>

C11_Witness ==
    /\ ListEmitted
    /\ ChildrenABC
    /\ tree.format = {"CommaDelimited", "Parenthesis"}
    /\ Written(events) = <<"(", "a", ",", "b", ",", "c", ")">>

\* no child of the list is emitted: the array is undefined or empty, or
\* start and count slice it empty
NoChildToEmit ==
    \/ ~tree.children.defined
    \/ tree.children.elements = <<>>
    \/ tree.start # Undefined /\ tree.start >= Len(tree.children.elements)
    \/ tree.count = 0

\* C12: suppression is decided before anything is written: an undefined
\* list under optional-if-undefined, and a list with no child to emit under
\* optional-if-empty, make no call to the sink; otherwise the text begins
\* with the opening bracket and ends with the matching closing bracket iff a
\* bracket bit is set, and for a list with no child to emit the brackets are
\* separated by exactly one line break when the multi-line bit is set.
C12_SuppressionBeforeBrackets ==
    ListEmitted /\ tree.kind = "list" =>
        LET text == Written(events)
            bracketed == tree.format \cap BracketsMask # {}
            suppressed == \/ ~tree.children.defined /\ "OptionalIfUndefined" \in tree.format
                          \/ NoChildToEmit /\ "OptionalIfEmpty" \in tree.format
            inner == IF bracketed THEN SubSeq(text, 2, Len(text) - 1) ELSE text
        IN  IF suppressed THEN events = <<>>
            ELSE /\ bracketed =>
                       /\ Len(text) >= 2
                       /\ text[1] = GetOpeningBracket(tree.format)
                       /\ text[Len(text)] = GetClosingBracket(tree.format)
                 /\ \A k \in DOMAIN inner :
                       inner[k] \notin {"(", ")", "{", "}", "<", ">", "[", "]"}
                 /\ NoChildToEmit /\ "MultiLine" \in tree.format => inner = <<"\n">>

C12_Witness ==
    /\ ListEmitted
    /\ tree.children.defined
    /\ tree.start = 0 /\ tree.count = 0
    /\ "MultiLine" \in tree.format
    /\ "OptionalIfUndefined" \in tree.format
    /\ Written(events) = <<"{", "\n", "}">>

\* the children that start and count select
ListSlice ==
    LET begin == IF tree.start = Undefined THEN 0 ELSE tree.start
        n == IF tree.count = Undefined THEN Len(tree.children.elements) - begin
             ELSE tree.count
    IN  SubSeq(tree.children.elements, begin + 1, begin + n)

\* C13: under the multi-line bit, a list with n >= 1 children to emit gets a
\* line break before the first child, between every two children, and after
\* the last child unless the no-trailing-new-line bit is set, whatever the
\* preserve-lines bit, the source positions and the hints are.
C13_MultiLineBreaksEverywhere ==
    ListEmitted /\ tree.kind = "list" /\ "MultiLine" \in tree.format /\ ~NoChildToEmit =>
        Layout(events) = LayoutOf(ListSlice, 1, [k \in DOMAIN ListSlice |-> TRUE],
                                  "NoTrailingNewLine" \notin tree.format)

C13_Witness ==
    /\ ListEmitted
    /\ {"MultiLine", "PreserveLines"} \subseteq tree.format
    /\ "NoTrailingNewLine" \notin tree.format
    /\ tree.parentNode.endLine = 1
    /\ Len(tree.children.elements) = 2
    /\ tree.children.elements[2].startsOnNewLine = "false"
    /\ Layout(events) = <<"\n", "a", "\n", "b", "\n">>

\* the source has a line break between the two positions
LineBreakBetween(line1, line2) == line1 # line2

\* the starts-on-new-line hint of a synthesized child, and the
\* prefer-new-line bit when the hint is absent
HintOrPreference(child) ==
    IF child.startsOnNewLine = "undefined" THEN "PreferNewLine" \in tree.format
    ELSE child.startsOnNewLine = "true"

\* C14 (as stated): under preserve-lines without multi-line, a parsed child
\* gets a line break before it (and the last one after it) exactly where the
\* source has one, whatever the prefer-new-line bit is; a synthesized child
\* gets the break its own hint asks for, the prefer-new-line bit deciding
\* only when the hint is absent.
C14_BreaksFollowSourceOrOwnHint ==
    ListEmitted /\ tree.kind = "list" /\ WholeList
        /\ "PreserveLines" \in tree.format /\ "MultiLine" \notin tree.format
        /\ ~tree.parentNode.synthesized =>
        LET cs == tree.children.elements
            before(k) == IF k = 1 THEN tree.parentNode.startLine ELSE cs[k - 1].endLine
            breaks == [k \in DOMAIN cs |->
                          IF cs[k].synthesized THEN HintOrPreference(cs[k])
                          ELSE LineBreakBetween(before(k), cs[k].startLine)]
            closing == IF cs[Len(cs)].synthesized THEN HintOrPreference(cs[Len(cs)])
                       ELSE LineBreakBetween(cs[Len(cs)].endLine, tree.parentNode.endLine)
        IN  Layout(events) = LayoutOf(cs, 1, breaks, closing)

\* what synthesizedNodeStartsOnNewLine answers for a sibling: the hint of a
\* synthesized node that has one, the prefer-new-line bit otherwise
SiblingAsksForBreak(child) ==
    IF child.synthesized /\ child.startsOnNewLine # "undefined"
    THEN child.startsOnNewLine = "true"
    ELSE "PreferNewLine" \in tree.format

\* C14 (amended): under preserve-lines without multi-line, for a list
\* emitted whole: with the prefer-new-line bit, a line break is written
\* before the first child and after the last one, whatever the children and
\* the source are; without it, the break before the first child (after the
\* last one) follows the source when parent and child are parsed, and is
\* written iff the child is synthesized and its hint is true otherwise.
\* Between two parsed siblings the break follows the source whatever the
\* prefer-new-line bit is; when one of the two is synthesized, a break is
\* written iff one of the two asks for it.
C14_PreserveLinesLayout ==
    ListEmitted /\ tree.kind = "list" /\ WholeList
        /\ "PreserveLines" \in tree.format /\ "MultiLine" \notin tree.format =>
        LET cs == tree.children.elements
            parent == tree.parentNode
            prefer == "PreferNewLine" \in tree.format
            outer(child, sourceBreak) ==
                IF prefer THEN TRUE
                ELSE IF parent.synthesized \/ child.synthesized
                THEN child.synthesized /\ child.startsOnNewLine = "true"
                ELSE sourceBreak
            breaks == [k \in DOMAIN cs |->
                          IF k = 1
                          THEN outer(cs[1], LineBreakBetween(parent.startLine, cs[1].startLine))
                          ELSE IF cs[k - 1].synthesized \/ cs[k].synthesized
                          THEN SiblingAsksForBreak(cs[k - 1]) \/ SiblingAsksForBreak(cs[k])
                          ELSE LineBreakBetween(cs[k - 1].endLine, cs[k].startLine)]
            closing == outer(cs[Len(cs)],
                             LineBreakBetween(cs[Len(cs)].endLine, parent.endLine))
        IN  Layout(events) = LayoutOf(cs, 1, breaks, closing)

C14_Witness ==
    /\ ListEmitted
    /\ tree.format \cap {"MultiLine", "PreserveLines", "PreferNewLine"}
          = {"PreserveLines", "PreferNewLine"}
    /\ ~tree.parentNode.synthesized
    /\ tree.parentNode.endLine = 1
    /\ Len(tree.children.elements) = 2
    /\ \A k \in 1..2 : /\ ~tree.children.elements[k].synthesized
                       /\ tree.children.elements[k].startLine = 1
    /\ Layout(events) = <<"\n", "a", "b", "\n">>

\* the depth of indentation after the first k calls of events
IndentAfter(k) ==
    Cardinality({j \in 1..k : events[j][1] = "increaseIndent"})
    - Cardinality({j \in 1..k : events[j][1] = "decreaseIndent"})

\* the positions in events of the first and of the last call of emit(node)
EmitBegins(node) == CHOOSE k \in Indices : events[k] = <<"isEmitNotificationEnabled", node>>

EmitEnds(node) == CHOOSE k \in Indices : events[k] = <<"emitTrailingComments", node>>

\* C15: with neither the multi-line nor the preserve-lines bit, no line
\* break is written before the first child or after the last, and one is
\* written between two siblings iff the next one carries the
\* starts-on-new-line hint; in a non-indented list the indentation is then
\* raised for that one child and restored right after it.
C15_SingleLineBreaksOnHint ==
    ListEmitted /\ tree.kind = "list" /\ tree.format \cap LinesMask = {} /\ ~NoChildToEmit =>
        LET cs == ListSlice
            breaks == [k \in DOMAIN cs |-> k > 1 /\ cs[k].startsOnNewLine = "true"]
        IN  /\ Layout(events) = LayoutOf(cs, 1, breaks, FALSE)
            /\ "Indented" \notin tree.format =>
                  \A k \in DOMAIN cs :
                      /\ \A j \in EmitBegins(cs[k].node)..EmitEnds(cs[k].node) :
                            IndentAfter(j) = IF breaks[k] THEN 1 ELSE 0
                      /\ breaks[k] =>
                            /\ events[EmitEnds(cs[k].node) + 1] = <<"decreaseIndent", "">>
                            /\ IndentAfter(EmitEnds(cs[k].node) + 1) = 0

C15_Witness ==
    /\ ListEmitted
    /\ tree.format = {"CommaDelimited", "Parenthesis"}
    /\ tree.start = Undefined
    /\ Len(tree.children.elements) = 3
    /\ tree.children.elements[3].startsOnNewLine = "true"
    /\ Layout(events) = <<"a", "b", "\n", "c">>
    /\ IndentAfter(EmitBegins("c")) = 1
    /\ IndentAfter(Len(events)) = 0

-----------------------------------------------------------------------------
(* Claims about property and element access, checked under SpecAccess.     *)

\* the texts handed to write by the calls evs, in order
RECURSIVE WriteCalls(_)
WriteCalls(evs) ==
    IF evs = <<>> THEN <<>>
    ELSE (IF Head(evs)[1] = "write" /\ Head(evs)[2] # "" THEN <<Head(evs)[2]>> ELSE <<>>)
         \o WriteCalls(Tail(evs))

\* the access node has been dispatched, and events are the calls made
AccessEmitted(node) ==
    /\ tree.kind = "access"
    /\ dispatched.node = node
    /\ dispatched.entry \in {"emit", "emitExpression"}

Called(call, node) == \E k \in Indices : events[k] = <<call, node>>

\* C16: E.Name and E[Name] for which the resolver reports 3 are written as
\* `3 /* Name */` without any emission of E when comments are kept and
\* isolatedModules is off, and as `3` when comments are removed; under
\* isolatedModules the resolver is not asked and the access is emitted as
\* it stands.
C16_ConstantAccessFolded ==
    \A node \in {"member", "element"} :
        AccessEmitted(node) =>
            /\ ~opts.isolatedModules /\ opts.constantValues[node] = Number(30) =>
                  /\ WriteCalls(events) = IF opts.removeComments THEN <<"3">>
                                          ELSE <<"3", " /* Name */">>
                  /\ ~Called("isEmitNotificationEnabled", "E")
            /\ opts.isolatedModules =>
                  /\ \A n \in TreeIds : ~Called("getConstantValue", n)
                  /\ Called("emitIdentifier", "E")
                  /\ Called("emitIdentifier", "Name")
                  /\ node = "element" => WriteCalls(events) = <<"E", "[", "Name", "]">>
                  /\ node = "member" =>
                        WriteCalls(events) \in {<<"E", ".", "Name">>}

C16_Witness ==
    /\ AccessEmitted("member")
    /\ ~opts.isolatedModules
    /\ ~opts.removeComments
    /\ WriteCalls(events) = <<"3", " /* Name */">>

\* the position in events of the period written between the target and
\* the member of the access dispatched: the last period written
PeriodWritten ==
    CHOOSE k \in Indices :
        /\ events[k][1] = "write" /\ events[k][2] \in {".", ".."}
        /\ \A j \in (k + 1)..Len(events) :
              ~(events[j][1] = "write" /\ events[j][2] \in {".", ".."})

\* the access dispatched is emitted as an access, not as its constant
EmittedAsAccess(node) ==
    /\ AccessEmitted(node)
    /\ Tree[node].kind = "PropertyAccessExpression"
    /\ opts.isolatedModules \/ opts.constantValues[node] = NoValue

\* C17: for a property access written with no line break before the
\* period, two periods are written between target and member iff the target
\* is a numeric literal whose text has no decimal point, or the target is an
\* access folded to a finite integer constant; otherwise one period is
\* written.  So 1 with toString is written 1..toString and 1.5 with toFixed
\* is written 1.5.toFixed.
C17_TwoPeriodsAfterInteger ==
    \A node \in AccessExpressions :
        EmittedAsAccess(node)
            /\ (\A k \in 1..PeriodWritten : events[k][1] # "writeLine") =>
            LET target == Tree[node].expression
                value == opts.constantValues[target]
                integerLiteral == /\ Tree[target].kind = "NumericLiteral"
                                  /\ ~\E k \in DOMAIN Tree[target].text :
                                         Tree[target].text[k] = "."
                foldedInteger == /\ target \in AccessExpressions
                                 /\ ~opts.isolatedModules
                                 /\ value.type = "number"
                                 /\ value.tenths % 10 = 0
            IN  /\ events[PeriodWritten][2] =
                      IF integerLiteral \/ foldedInteger THEN ".." ELSE "."
                /\ node = "ofInteger" /\ ~Called("writeLine", "") =>
                      WriteCalls(events) = <<"1", "..", "toString">>
                /\ node = "ofFraction" /\ ~Called("writeLine", "") =>
                      WriteCalls(events) = <<"1.5", ".", "toFixed">>

C17_Witness ==
    /\ EmittedAsAccess("ofMember")
    /\ opts.removeComments
    /\ WriteCalls(events) = <<"3", "..", "toString">>

\* the calls of events in which the list emitter looks up the comments
\* between the previous token and node
Lookups(node) == {j \in Indices : events[j] = <<"getTrailingCommentsOfPosition", node>>}

\* the calls made between the end of the emission of the child before
\* child k of cs (the first call, for k = 1) and the emission of child k
TransitionBefore(cs, k) ==
    (IF k = 1 THEN 1 ELSE EmitEnds(cs[k - 1].node) + 1)..(EmitBegins(cs[k].node) - 1)

\* C26: the list emitter looks up the comments before a child iff it wrote
\* no line break in the transition right before that child (the leading
\* break for the first child, the separating break for the others); a
\* lookup skipped for one child does not suppress that of a later child,
\* and the comments of a child are looked up at most once.
C26_LookupIffNoBreakBefore ==
    ListEmitted /\ tree.kind = "list" /\ ~NoChildToEmit =>
        \A k \in DOMAIN ListSlice :
            LET transition == TransitionBefore(ListSlice, k)
                breakWritten == \E j \in transition : events[j][1] = "writeLine"
                lookups == Lookups(ListSlice[k].node)
            IN  /\ Cardinality(lookups) = IF breakWritten THEN 0 ELSE 1
                /\ lookups \subseteq transition

\* A line break was written before the first child and none before the
\* second one: the comments of the first were not looked up, and those of
\* the second were.
C26_Witness ==
    /\ ListEmitted
    /\ tree.kind = "list"
    /\ Layout(events) = <<"\n", "a", "b", "\n">>
    /\ Lookups("a") = {}
    /\ Cardinality(Lookups("b")) = 1

-----------------------------------------------------------------------------
(* Claims about the bodies, checked under SpecBodies.                      *)

\* a source file was printed whole, and events holds the calls made for it
BodiesEmitted == dispatched.entry = "printSourceFile" /\ tree.kind = "bodies"

IsEnvironmentCall(e) == e[1] \in {"startLexicalEnvironment", "endLexicalEnvironment"}

\* the nodes whose emitters have a lexical environment open after the
\* start and end calls of calls, innermost last
RECURSIVE OpenAfter(_)
OpenAfter(calls) ==
    IF calls = <<>> THEN <<>>
    ELSE LET open == OpenAfter(SubSeq(calls, 1, Len(calls) - 1))
             e == calls[Len(calls)]
         IN  IF e[1] = "startLexicalEnvironment" THEN Append(open, e[2])
             ELSE IF open # <<>> THEN SubSeq(open, 1, Len(open) - 1)
             ELSE open

\* the nodes whose emitters have a lexical environment open after the
\* first k calls, innermost last
OpenEnvironments(k) == OpenAfter(SelectSeq(SubSeq(events, 1, k), IsEnvironmentCall))

\* every endLexicalEnvironment closes the innermost open environment, which
\* the same emitter opened, and none is open when the file is printed
EnvironmentsBalancedAndNested ==
    /\ \A k \in Indices :
          events[k][1] = "endLexicalEnvironment" =>
              /\ OpenEnvironments(k - 1) # <<>>
              /\ OpenEnvironments(k - 1)[Len(OpenEnvironments(k - 1))] = events[k][2]
    /\ OpenEnvironments(Len(events)) = <<>>

\* The nodes whose body was emitted: the file, the module blocks, and the
\* functions that have a body.
BodyOwners ==
    {events[k][2] : k \in {j \in Indices :
        \/ events[j][1] \in {"emitSourceFile", "emitModuleBlock"}
        \/ events[j][1] = "emitSignatureAndBody" /\ Tree[events[j][2]].body # "undefined"}}

\* the statements of the body of owner; the expression, for an expression body
StatementsOf(owner) ==
    IF owner \in {"root", "module"} THEN tree.statements[owner]
    ELSE IF Tree[Tree[owner].body].kind = "Block" THEN tree.statements[Tree[owner].body]
    ELSE <<Tree[owner].body>>

CallsOf(call, owner) == {k \in Indices : events[k] = <<call, owner>>}

\* The emitter of owner calls startLexicalEnvironment once, before every
\* call made for a statement of the body, and endLexicalEnvironment once,
\* after all of them.
OpensAndCloses(owner) ==
    /\ Cardinality(CallsOf("startLexicalEnvironment", owner)) = 1
    /\ Cardinality(CallsOf("endLexicalEnvironment", owner)) = 1
    /\ \A i \in CallsOf("startLexicalEnvironment", owner),
          j \in CallsOf("endLexicalEnvironment", owner) :
          /\ i < j
          /\ \A k \in Indices :
                (\E n \in 1..Len(StatementsOf(owner)) : events[k][2] = StatementsOf(owner)[n])
                    => i < k /\ k < j

\* C18 as stated: every function body, block or expression, every module
\* body, empty or not, and every file body has startLexicalEnvironment
\* called before its statements and endLexicalEnvironment once after them,
\* and the calls are balanced and properly nested.
C18_EveryBodyOpensEnvironment ==
    BodiesEmitted =>
        /\ EnvironmentsBalancedAndNested
        /\ \A owner \in BodyOwners : OpensAndCloses(owner)

\* the bodies for which the printer opens a lexical environment: a file
\* without the NoLexicalEnvironment emit flag, a module block that is not
\* written as { }, a function whose body is a block
HasEnvironment(owner) ==
    CASE owner = "root" -> "NoLexicalEnvironment" \notin tree.emitFlags[owner]
      [] owner = "module" -> \/ tree.multiLine[owner]
                             \/ tree.statements[owner] # <<>>
                             \/ tree.nodes[owner].startLine # tree.nodes[owner].endLine
      [] OTHER -> Tree[Tree[owner].body].kind = "Block"

\* C18 amended: startLexicalEnvironment is called before the statements
\* and endLexicalEnvironment once after them for the block body of a
\* function, for a module block that is not an empty block on one line,
\* and for a file without the NoLexicalEnvironment emit flag; for an
\* expression body, for a module block written as { } and for a file with
\* that flag neither is called.  The calls are balanced and properly
\* nested: the end call of an inner body precedes that of the enclosing one.
C18_EnvironmentWhereOpened ==
    BodiesEmitted =>
        /\ EnvironmentsBalancedAndNested
        /\ \A owner \in BodyOwners :
              IF HasEnvironment(owner) THEN OpensAndCloses(owner)
              ELSE /\ CallsOf("startLexicalEnvironment", owner) = {}
                   /\ CallsOf("endLexicalEnvironment", owner) = {}

\* A file holds a module block that holds a function: the environment of
\* the function was closed before that of the module block, and that one
\* before the environment of the file.
C18_Witness ==
    /\ BodiesEmitted
    /\ \E i, j, k \in Indices :
          /\ i < j /\ j < k
          /\ events[i] = <<"endLexicalEnvironment", "fn">>
          /\ events[j] = <<"endLexicalEnvironment", "module">>
          /\ events[k] = <<"endLexicalEnvironment", "root">>

IsEmission(e) == e[1] = "isEmitNotificationEnabled"

\* a call that puts text or a line break in the output sink
IsOutput(e) == e[1] = "writeLine" \/ (e[1] = "write" /\ e[2] # "")

\* the calls of the sink between the calls i and j of events
OutputBetween(i, j) == SelectSeq(SubSeq(events, i + 1, j - 1), IsOutput)

\* The call that writes the closing delimiter of the body of owner, whose
\* environment the call j closed; the end of the calls for the file.
ClosingDelimiter(owner, j) ==
    IF owner = "root" THEN Len(events)
    ELSE CHOOSE c \in (j + 1)..Len(events) :
             /\ events[c] = <<"write", "}">>
             /\ \A k \in (j + 1)..(c - 1) : events[k] # <<"write", "}">>

\* the nodes emitted between the calls i and j, in order
EmittedBetween(i, j) ==
    LET emissions == SelectSeq(SubSeq(events, i + 1, j - 1), IsEmission)
    IN  [k \in 1..Len(emissions) |-> emissions[k][2]]

\* the body of owner, whose environment the call j closed, spans several
\* output lines: a line break was written since the environment was opened
SpansLines(owner, j) ==
    \E i \in CallsOf("startLexicalEnvironment", owner) :
        \E k \in (i + 1)..(j - 1) : events[k][1] = "writeLine"

\* the statement node is alone on its output line
OnOwnLine(node) ==
    LET before == OutputBetween(0, EmitBegins(node))
        after == OutputBetween(EmitEnds(node), Len(events) + 1)
    IN  /\ before # <<>> /\ before[Len(before)][1] = "writeLine"
        /\ after # <<>> /\ after[1][1] = "writeLine"

\* exactly one space is written between the statements node1 and node2
OneSpaceBetween(node1, node2) ==
    OutputBetween(EmitEnds(node1), EmitBegins(node2)) = <<<<"write", " ">>>>

\* the hoisted declarations are emitted, in the order returned, between
\* the call j that closes the environment of owner and the closing delimiter
HoistedInOrder(owner, j) ==
    EmittedBetween(j, ClosingDelimiter(owner, j) + 1) = tree.declarations[owner]

\* C19: the hoisted declarations that endLexicalEnvironment returns for a
\* body are all emitted, in the order returned, right after the statements
\* of the body and before its closing delimiter; each is on its own line
\* when the body spans several output lines, and otherwise consecutive
\* statements are separated by exactly one space.
C19_HoistedDeclarationsPlaced ==
    BodiesEmitted =>
        \A j \in Indices :
            events[j][1] = "endLexicalEnvironment" =>
                LET owner == events[j][2]
                    declarations == tree.declarations[owner]
                    all == StatementsOf(owner) \o declarations
                IN  /\ HoistedInOrder(owner, j)
                    /\ declarations # <<>> =>
                          IF SpansLines(owner, j)
                          THEN \A k \in 1..Len(declarations) : OnOwnLine(declarations[k])
                          ELSE \A k \in 1..(Len(all) - 1) :
                                   OneSpaceBetween(all[k], all[k + 1])

\* the nodes whose emission is in events from its first call to its last
EmittedNodes ==
    {events[k][2] : k \in {j \in Indices :
        /\ events[j][1] = "isEmitNotificationEnabled"
        /\ \E e \in Indices : events[e] = <<"emitTrailingComments", events[j][2]>>}}

\* C28: the emission of a node of any kind leaves the indentation of the
\* output sink at the level it had before the node was emitted: the
\* increaseIndent and decreaseIndent calls of every emitter are balanced.
C28_IndentationRestored ==
    BodiesEmitted =>
        /\ \A node \in EmittedNodes :
              IndentAfter(EmitEnds(node)) = IndentAfter(EmitBegins(node) - 1)
        /\ IndentAfter(Len(events)) = 0

-----------------------------------------------------------------------------
(* Claims about the prologue directives and the helpers of a body,         *)
(* checked under SpecPrologue.                                             *)

\* the calls that begin an emission of node
Emissions(node) == {k \in Indices : events[k] = <<"isEmitNotificationEnabled", node>>}

\* the file, and fn when its body was emitted
PrologueOwners == {"root"} \cup {owner \in {"fn"} : Emissions(owner) # {}}

\* the node that carries the helper flags of the body of owner
BodyNode(owner) == IF owner = "root" THEN owner ELSE Tree[owner].body

\* the number of prologue directives that statements begins with
LeadingRun(statements) ==
    CHOOSE n \in 0..Len(statements) :
        /\ \A i \in 1..n : IsPrologueDirective(statements[i])
        /\ n = Len(statements) \/ ~IsPrologueDirective(statements[n + 1])

\* the statements of the body of owner, then the hoisted declarations of
\* its lexical environment
PartsOf(owner) ==
    StatementsOf(owner)
        \o (IF HasEnvironment(owner) THEN tree.declarations[owner] ELSE <<>>)

\* the lines of the helper texts that the flags of node ask for
HelperTextOf(node) ==
    UNION {{HelperLines[h][i] : i \in 2..Len(HelperLines[h])} :
              h \in {n \in DOMAIN HelperLines :
                        \/ n = "exportStarHelper" /\ "EmitExportStar" \in tree.emitFlags[node]
                        \/ n = "superHelper" /\ "EmitSuperHelper" \in tree.emitFlags[node]
                        \/ n = "advancedSuperHelper"
                              /\ "EmitAdvancedSuperHelper" \in tree.emitFlags[node]}}

\* the writes of helper text made for the body of owner: the writes of its
\* lines that follow the call of emitHelpers with only writes and line
\* breaks between
HelperWrites(owner) ==
    {k \in Indices :
        /\ events[k][1] = "write" /\ events[k][2] \in HelperTextOf(BodyNode(owner))
        /\ \E h \in CallsOf("emitHelpers", BodyNode(owner)) :
              h < k /\ \A m \in (h + 1)..k : events[m][1] \in {"write", "writeLine"}}

\* a line break is written between the braces of the body of fn
BrokenOverLines(owner) ==
    \E b \in CallsOf("emitBlockFunctionBody", BodyNode(owner)) :
        \E k \in b..EmitEnds(owner) : events[k][1] = "writeLine"

\* C29: for a file body and for a block function body, every statement of
\* the body is emitted exactly once, in source order, and the parts appear
\* in this order: the leading run of prologue directives, then any helper
\* text, then the remaining statements, then the hoisted declarations of
\* the body's lexical environment; a function body that has a prologue
\* directive or for which helper text was written is never laid out on a
\* single line.
C29_BodyPartsInOrder ==
    BodiesEmitted =>
        \A owner \in PrologueOwners :
            LET parts == PartsOf(owner)
                leading == LeadingRun(StatementsOf(owner))
            IN  /\ \A i \in 1..Len(parts) : Cardinality(Emissions(parts[i])) = 1
                /\ \A i, j \in 1..Len(parts) :
                      i < j => EmitEnds(parts[i]) < EmitBegins(parts[j])
                /\ \A line \in HelperTextOf(BodyNode(owner)) :
                      Cardinality({k \in HelperWrites(owner) : events[k][2] = line}) = 1
                /\ \A h \in HelperWrites(owner) : \A i \in 1..Len(parts) :
                      IF i <= leading THEN EmitEnds(parts[i]) < h ELSE h < EmitBegins(parts[i])
                /\ (owner = "fn" /\ (leading > 0 \/ HelperWrites(owner) # {}))
                      => BrokenOverLines(owner)

\* a file that begins with a directive, carries a helper flag and has
\* hoisted declarations was printed, with a function whose body, marked to
\* be emitted on a single line, begins with a directive
C29_Witness ==
    /\ BodiesEmitted
    /\ tree.statements["root"] = <<"useStrict", "fn">>
    /\ "EmitExportStar" \in tree.emitFlags["root"]
    /\ tree.declarations["root"] = <<"hoisted2">>
    /\ tree.statements["block"] = <<"useAsm", "second">>
    /\ tree.emitFlags["block"] = {"SingleLine"}
    /\ tree.declarations["fn"] = <<"hoisted1">>
    /\ HelperWrites("root") # {}
    /\ BrokenOverLines("fn")

-----------------------------------------------------------------------------
(* Claims about the temp-name scopes, checked under SpecScopes.            *)

\* the frame of the innermost emitter
Top(stk) == stk[Len(stk)]

\* C20 as stated: emitting a function, a class member list, an enum body
\* or an indented object literal starts with tempFlags zero, and the end of
\* the emitter gives tempFlags the value they had when it began, whatever
\* names were allocated inside.
C20_EveryScopeFreshAndRestored ==
    [][/\ (\/ EnterFunction({}, 0) \/ EnterExpressionBody \/ EnterClass \/ EnterEnum
           \/ EnterObjectLiteral({"Indented"}))
          => tempFlags' = 0
       /\ LeaveScope => tempFlags' = Top(stack).savedTempFlags]_vars

\* C20, amended: a function with a block body, a class and an enum start
\* with tempFlags zero and their end gives tempFlags the value they had when
\* the emitter began, whatever names were allocated inside; a function whose
\* body is an expression and an object literal, indented or not, leave
\* tempFlags as they are when they begin and when they end, so the names
\* allocated inside advance the counter of the enclosing scope.
C20_BlockScopesFreshAndRestored ==
    [][/\ (EnterFunction({}, 0) \/ EnterClass \/ EnterEnum)
          => /\ tempFlags' = 0
             /\ Top(stack').restore
             /\ Top(stack').savedTempFlags = tempFlags
       /\ (EnterExpressionBody \/ \E ef \in {{}, {"Indented"}} : EnterObjectLiteral(ef))
          => /\ tempFlags' = tempFlags
             /\ ~Top(stack').restore
       /\ LeaveScope
          => tempFlags' = IF Top(stack).restore THEN Top(stack).savedTempFlags
                          ELSE tempFlags
       /\ \A i \in 1..Len(stack) :
             i <= Len(stack') =>
                 /\ stack'[i].savedTempFlags = stack[i].savedTempFlags
                 /\ stack'[i].restore = stack[i].restore]_vars

\* One temp name was allocated at the top level of the file and a second
\* one inside a nested emitter that has ended, and the counter of the file
\* is back at the value it had before the nested emitter began.
C20_Witness ==
    /\ pc = "body"
    /\ Len(stack) = 1
    /\ stack[1].temps = <<UnderscoreLetter(0)>>
    /\ Generations = 2
    /\ tempFlags = 1

-----------------------------------------------------------------------------
(* Claims about makeTempVariableName, checked under SpecTemp.              *)

\* the values of the counter whose names the runs can reach
TempCounts == 0..(26 + MaxRequests + 2)

\* name is a name of the pattern _a ... _z, _0, _1, ...
InSequence(name) == \E count \in TempCounts : TempNameOfCount(count) = name

\* the place of a name of the pattern in the pattern
TempIndex(name) == CHOOSE count \in TempCounts : TempNameOfCount(count) = name

\* the names of temps that are not the dedicated name "_i"
SequenceNames(temps) == SelectSeq(temps, LAMBDA name : name # Str_i)

\* the counter skips count: it is the slot of "_i" or of "_n", or its name
\* fails the uniqueness test
Skipped(count) ==
    \/ count \in {8, 13}
    \/ ~IsUniqueName(TempNameOfCount(count), generatedNameSet)

FirstFree(start) ==
    CHOOSE count \in TempCounts :
        /\ count >= start
        /\ ~Skipped(count)
        /\ \A c \in TempCounts : (start <= c /\ c < count) => Skipped(c)

\* the next name of the pattern _a ... _z, _0, _1, ... for an Auto request
NextAutoName == TempNameOfCount(FirstFree(BitAnd(tempFlags, TempFlags_CountMask)))

\* this step generates the name of a Loop identifier
LoopRequestReturns ==
    /\ nodeToGeneratedName' # nodeToGeneratedName
    /\ last'.fresh
    /\ Nodes[last'.node].autoGenerateKind = "Loop"

\* "_i" passes the uniqueness test and no request of this scope got it
FreeAndNotHandedOut ==
    /\ IsUniqueName(Str_i, generatedNameSet)
    /\ BitAnd(tempFlags, TempFlags_i) = 0

\* C22 as stated: a Loop request returns _i when _i is free and not yet
\* handed out in the scope; when _i is taken it returns _n if _n is free;
\* when both are taken it returns the next name of the Auto sequence.
C22_LoopFallsBackToN ==
    [][LoopRequestReturns =>
          last'.text = IF FreeAndNotHandedOut THEN Str_i
                       ELSE IF IsUniqueName(Str_n, generatedNameSet) THEN Str_n
                       ELSE NextAutoName]_vars

\* C22 amended: a Loop request returns _i, and sets the flag of _i in
\* tempFlags, when _i passes the uniqueness test and the flag is not set;
\* otherwise it returns the next name of the Auto sequence and leaves the
\* flag as it is.  No request returns _n.
C22_LoopPrefersIThenAuto ==
    [][/\ LoopRequestReturns =>
            IF FreeAndNotHandedOut
            THEN /\ last'.text = Str_i
                 /\ BitAnd(tempFlags', TempFlags_i) = TempFlags_i
                 /\ BitAnd(tempFlags', TempFlags_CountMask) =
                        BitAnd(tempFlags, TempFlags_CountMask)
            ELSE /\ last'.text = NextAutoName
                 /\ BitAnd(tempFlags', TempFlags_i) = BitAnd(tempFlags, TempFlags_i)
       /\ last'.fresh => last'.text # Str_n]_vars

\* The second Loop request of a function body: _i went to the first one,
\* and the second one got the first name of the Auto sequence.
C22_Witness ==
    /\ Len(stack) = 2
    /\ stack[2].temps = <<Str_i, UnderscoreLetter(0)>>
    /\ Nodes[last.node].autoGenerateKind = "Loop"
    /\ last.fresh
    /\ last.text = UnderscoreLetter(0)
    /\ BitAnd(tempFlags, TempFlags_i) = TempFlags_i

\* C25: whatever names are reserved, in the file or generated, and whatever
\* the state of the counter, that of the first pass included, every Auto,
\* Loop and Unique request ends and returns a name that is none of them.
C25_EveryRequestReturnsFreshName ==
    /\ pc # "hang"
    /\ (last.fresh /\ last.by \in {"temp", "unique"}) =>
          last.text \notin (opts.globalNames \cup currentFileIdentifiers \cup last.taken)

\* the identifiers of kinds that hold a generated name in this pass
ResolvedOfKind(kinds) ==
    {id \in NodeIds : /\ nodeToGeneratedName[id] # NoName
                      /\ Nodes[id].autoGenerateKind \in kinds}

\* C27: within one pass, a name that makeTempVariableName returned for an
\* Auto or Loop request and a name that makeUniqueName returned for a
\* Unique request, whatever its base, are never equal, whichever request
\* came first.
C27_TempAndUniqueNamesDiffer ==
    \A a \in ResolvedOfKind({"Auto", "Loop"}), b \in ResolvedOfKind({"Unique"}) :
        nodeToGeneratedName[a] # nodeToGeneratedName[b]

-----------------------------------------------------------------------------
(* Claims about makeUniqueName and generateNameForNode, checked under      *)
(* SpecUnique.                                                             *)

\* the suffixes that the runs can reach
Suffixes == 1..(MaxRequests + 2)

\* name is globally reserved, in the identifier table of the file or in the
\* generated-name set
Taken(name) ==
    \/ name \in opts.globalNames
    \/ name \in currentFileIdentifiers
    \/ name \in generatedNameSet

\* b, followed by an underscore unless b ends with one
UnderscoreAfter(b) ==
    IF b # <<>> /\ b[Len(b)] = "_" THEN b ELSE b \o <<"_">>

\* name is b, an underscore unless b ends with one, and the smallest
\* integer k >= 1 for which the result is not taken
SmallestFreeVariation(name, b) ==
    \E k \in Suffixes :
        /\ name = UnderscoreAfter(b) \o NumberToString(k)
        /\ ~Taken(name)
        /\ \A j \in Suffixes : j < k => Taken(UnderscoreAfter(b) \o NumberToString(j))

\* this step generates the name of a Unique identifier
UniqueRequestReturns ==
    /\ nodeToGeneratedName' # nodeToGeneratedName
    /\ last'.fresh
    /\ Nodes[last'.node].autoGenerateKind = "Unique"

\* C23: a Unique request with base name b returns b, an underscore unless b
\* ends with one, and the smallest integer k >= 1 for which the name is not
\* globally reserved, not in the file's identifier table and not in the
\* generated-name set; the name is added to the generated-name set, and two
\* Unique requests with the same base in one pass return different names.
C23_UniqueSmallestFreeSuffix ==
    [][/\ UniqueRequestReturns =>
            /\ SmallestFreeVariation(last'.text, Nodes[last'.node].text)
            /\ generatedNameSet' = generatedNameSet \cup {last'.text}
       /\ \A a, b \in NodeIds :
             (/\ a # b
              /\ Nodes[a].autoGenerateKind = "Unique"
              /\ Nodes[b].autoGenerateKind = "Unique"
              /\ Nodes[a].text = Nodes[b].text
              /\ nodeToGeneratedName'[a] # NoName
              /\ nodeToGeneratedName'[b] # NoName)
                 => nodeToGeneratedName'[a] # nodeToGeneratedName'[b]]_vars

\* Two Unique requests with the base x in a file whose identifiers hold
\* x_1: the first one got x_2 and the second one x_3.
C23_Witness ==
    /\ <<"x", "_", "1">> \in currentFileIdentifiers
    /\ nodeToGeneratedName[6] = <<"x", "_", "2">>
    /\ last.node = 20
    /\ last.fresh
    /\ last.text = <<"x", "_", "3">>
    /\ generatedNameSet = {<<"x", "_", "2">>, <<"x", "_", "3">>}

\* the node at the end of the chain of `original` references from node
RECURSIVE EndOfChain(_)
EndOfChain(node) ==
    IF Nodes[node].original = 0 THEN node ELSE EndOfChain(Nodes[node].original)

\* this step generates the name of a Node identifier
NodeRequestReturns ==
    /\ nodeToGeneratedName' # nodeToGeneratedName
    /\ last'.fresh
    /\ Nodes[last'.node].autoGenerateKind = "Node"

\* the Node identifiers whose chains end at the same node were given the
\* same text in this pass
SameSourceSameText(texts) ==
    \A a, b \in NodeIds :
        (/\ Nodes[a].autoGenerateKind = "Node"
         /\ Nodes[b].autoGenerateKind = "Node"
         /\ EndOfChain(a) = EndOfChain(b)
         /\ texts[a] # NoName
         /\ texts[b] # NoName) => texts[a] = texts[b]

\* the name of node itself when it is unique in the scope of node, and
\* otherwise the smallest free variation of it
OwnNameOrVariation(name, node) ==
    IF Nodes[node].uniqueLocal THEN name = Nodes[node].text
    ELSE SmallestFreeVariation(name, Nodes[node].text)

\* C24 as stated: a Node request returns the own name of the node at the
\* end of the chain of original references when that name is unique in the
\* scope of the node, for every kind of node, and a Unique variation of it
\* only when it is not; two Node requests whose chains end at the same node
\* return the same text.
C24_OwnNameForEveryKind ==
    [][/\ NodeRequestReturns => OwnNameOrVariation(last'.text, EndOfChain(last'.node))
       /\ SameSourceSameText(firstText')]_vars

\* C24 amended: the own name is returned, when it is unique in the scope,
\* only for a module or an enum declaration (a variation of it when it is
\* not unique); a function or class declaration and an export assignment
\* get a variation of "default", an import or export declaration one of the
\* module's name, a class expression one of "class", an identifier one of
\* its own text, and every other kind of node the next name of the Auto
\* sequence.  Two Node requests whose chains end at the same node return
\* the same text.
C24_OwnNameForModuleOrEnum ==
    [][/\ NodeRequestReturns =>
            LET source == EndOfChain(last'.node)
                kind == Nodes[source].kind
                name == last'.text
            IN  CASE kind \in {"ModuleDeclaration", "EnumDeclaration"} ->
                        OwnNameOrVariation(name, source)
                  [] kind \in {"FunctionDeclaration", "ClassDeclaration",
                               "ExportAssignment"} ->
                        SmallestFreeVariation(name, Str_default)
                  [] kind \in {"ImportDeclaration", "ExportDeclaration"} ->
                        SmallestFreeVariation(name, Str_module)
                  [] kind = "ClassExpression" -> SmallestFreeVariation(name, Str_class)
                  [] kind = "Identifier" ->
                        SmallestFreeVariation(name, Nodes[source].text)
                  [] OTHER -> name = NextAutoName
       /\ SameSourceSameText(firstText')]_vars

\* The identifier of module M got M, the identifier of class C, whose name
\* is unique in its scope, got default_1, and the identifier that points to
\* an updated copy of M was then given M.
C24_Witness ==
    /\ firstText[8] = Str_M
    /\ firstText[21] = Str_default \o <<"_", "1">>
    /\ last.node = 17
    /\ last.text = Str_M

-----------------------------------------------------------------------------
(* Claims about printFiles and emitFile, checked under SpecRun.            *)

\* the expected files for which emitFile has returned
Emitted == 1..run.idx

FileWritten(path) == \E k \in 1..Len(run.written) : run.written[k] = path

\* emit is not blocked for the path of the i-th file and noEmit is off
EmitAllowed(i) == ~IsEmitBlocked(run.expected[i].jsFilePath) /\ ~Option("noEmit")

\* once emitSkipped is true no step makes it false
EmitSkippedStaysTrue == run.emitSkipped => run'.emitSkipped

\* C30 as stated: over any sequence of expected output files in one
\* printFiles run, the JavaScript output and its position map are written
\* for a file iff emit is not blocked for its path and no-emit is off;
\* otherwise nothing is printed for that file and emitSkipped becomes true;
\* once emitSkipped is true it stays true for the rest of the run.
C30_OutputAndMapIffNotBlocked ==
    /\ [](\A i \in Emitted :
            /\ (FileWritten(run.expected[i].jsFilePath) /\ FileWritten(run.expected[i].sourceMapFilePath))
                   <=> EmitAllowed(i)
            /\ ~EmitAllowed(i) =>
                   /\ ~FileWritten(run.expected[i].jsFilePath)
                   /\ ~FileWritten(run.expected[i].sourceMapFilePath)
                   /\ run.emitSkipped)
    /\ [][EmitSkippedStaysTrue]_vars

\* C30: over any sequence of expected output files in one printFiles run,
\* the JavaScript output is written for a file iff emit is not blocked for
\* its path and noEmit is off, and its position map iff, besides, the
\* option sourceMap is on and inlineSourceMap is off; when emit is blocked
\* or noEmit is on neither is written and emitSkipped becomes true; once
\* emitSkipped is true it stays true for the rest of the run, and it is
\* what printFiles returns.
C30_OutputIffNotBlocked ==
    /\ [](\A i \in Emitted :
            /\ FileWritten(run.expected[i].jsFilePath) <=> EmitAllowed(i)
            /\ FileWritten(run.expected[i].sourceMapFilePath)
                   <=> (EmitAllowed(i) /\ Option("sourceMap") /\ ~Option("inlineSourceMap"))
            /\ ~EmitAllowed(i) => run.emitSkipped)
    /\ [](run.at = "returned" => run.returned = <<[emitSkipped |-> run.emitSkipped]>>)
    /\ [][EmitSkippedStaysTrue]_vars

\* printFiles returned after two files: emit was blocked for the first,
\* the second was printed with its map and its declaration file was
\* written after emitSkipped had become true
C30_Witness ==
    /\ run.at = "returned"
    /\ run.idx = 2
    /\ run.blocked = {<<"js", 1>>}
    /\ run.written = <<<<"map", 2>>, <<"js", 2>>>>
    /\ run.declarations = <<<<"d.ts", 2>>>>
    /\ run.returned = <<[emitSkipped |-> TRUE]>>

====
